---- MODULE Spec2Model ----
(***************************************************************************)
(* Verification model of the payout reconciliation tool (Payout_recon.py): *)
(* the free-text parser parse_pasted_data and the matcher reconcile_data   *)
(* of class ReconciliationProcessor.                                       *)
(*                                                                         *)
(* Strings are sequences of one-character strings, so that lower(),        *)
(* strip(), split(), replace() and substring tests are computed.  Amounts  *)
(* are IEEE-754 binary64 values, computed with round-to-nearest-even.      *)
(***************************************************************************)
EXTENDS Integers, Sequences, FiniteSets, TLC

(***************************************************************************)
(* binary64 arithmetic.                                                    *)
(* A float is [neg, mag]: mag is the magnitude as a multiple of 2^-59,     *)
(* written in three limbs <<h, m, l>> of 24 bits, h the most significant.  *)
(* Every binary64 value v with v = 0 or 2^-7 <= |v| < 2^13 is such a       *)
(* multiple, and so is every sum and difference of two of them; the        *)
(* amounts of the model stay in that range.  Results are rounded to 53     *)
(* significant bits, ties to even, as the hardware does.                   *)
(***************************************************************************)
LimbBase == 2^24

RECURSIVE BitLen(_)
BitLen(n) == IF n = 0 THEN 0 ELSE 1 + BitLen(n \div 2)

MagZero == <<0, 0, 0>>

MagAdd(a, b) ==
    LET l == a[3] + b[3]
        m == a[2] + b[2] + (l \div LimbBase)
        h == a[1] + b[1] + (m \div LimbBase)
    IN  <<h, m % LimbBase, l % LimbBase>>

\* a - b for a >= b
MagSub(a, b) ==
    LET l  == a[3] - b[3]
        bl == IF l < 0 THEN 1 ELSE 0
        m  == a[2] - b[2] - bl
        bm == IF m < 0 THEN 1 ELSE 0
    IN  <<a[1] - b[1] - bm, m + bm * LimbBase, l + bl * LimbBase>>

MagLE(a, b) ==
    \/ a[1] < b[1]
    \/ a[1] = b[1] /\ a[2] < b[2]
    \/ a[1] = b[1] /\ a[2] = b[2] /\ a[3] <= b[3]

MagBitLen(a) ==
    IF a[1] > 0 THEN 48 + BitLen(a[1])
    ELSE IF a[2] > 0 THEN 24 + BitLen(a[2])
    ELSE BitLen(a[3])

\* Round a magnitude to 53 significant bits, ties to even.  tail tells where
\* the exact value's part below 2^-59 lies: "zero", "below" one half of
\* 2^-59, "half", or "above".
Round53(a, tail) ==
    LET q    == MagBitLen(a) - 53
        p    == 2^q
        low  == a[3] % p
        down == <<a[1], a[2], a[3] - low>>
        up   == MagAdd(down, <<0, 0, p>>)
        odd  == (a[3] \div p) % 2 = 1
        cmp  == IF q = 0
                  THEN CASE tail = "above" -> 1
                         [] tail = "half"  -> 0
                         [] OTHER          -> -1
                  ELSE IF 2 * low > p THEN 1
                       ELSE IF 2 * low < p THEN -1
                       ELSE IF tail = "zero" THEN 0 ELSE 1
    IN  IF q < 0 THEN a
        ELSE IF cmp > 0 \/ (cmp = 0 /\ odd) THEN up ELSE down

\* <<h, m, l>> divided by the small integer d, correctly rounded.  h may
\* exceed one limb; the quotient must fit three limbs.
DivRound(a, d) ==
    LET qh == a[1] \div d
        r1 == a[1] % d
        n2 == r1 * LimbBase + a[2]
        qm == n2 \div d
        r2 == n2 % d
        n3 == r2 * LimbBase + a[3]
        ql == n3 \div d
        r3 == n3 % d
        tail == IF r3 = 0 THEN "zero"
                ELSE IF 2 * r3 < d THEN "below"
                ELSE IF 2 * r3 = d THEN "half" ELSE "above"
    IN  Round53(<<qh, qm, ql>>, tail)

FZero == [neg |-> FALSE, mag |-> MagZero]

FNeg(x) == IF x.mag = MagZero THEN x ELSE [neg |-> ~x.neg, mag |-> x.mag]

FAbs(x) == [neg |-> FALSE, mag |-> x.mag]

FAdd(x, y) ==
    IF x.neg = y.neg
      THEN [neg |-> x.neg, mag |-> Round53(MagAdd(x.mag, y.mag), "zero")]
    ELSE IF x.mag = y.mag THEN FZero
    ELSE IF MagLE(y.mag, x.mag)
      THEN [neg |-> x.neg, mag |-> Round53(MagSub(x.mag, y.mag), "zero")]
      ELSE [neg |-> y.neg, mag |-> Round53(MagSub(y.mag, x.mag), "zero")]

FSub(x, y) == FAdd(x, FNeg(y))

\* x <= y
FLE(x, y) ==
    IF x.neg /\ ~y.neg THEN TRUE
    ELSE IF ~x.neg /\ y.neg THEN x.mag = MagZero /\ y.mag = MagZero
    ELSE IF x.neg THEN MagLE(y.mag, x.mag)
    ELSE MagLE(x.mag, y.mag)

\* x / k for an integer k > 0 (Python converts k to a float, exactly)
FDivInt(x, k) ==
    IF x.mag = MagZero THEN FZero
    ELSE [neg |-> x.neg, mag |-> DivRound(x.mag, k)]

\* The float nearest to n / 10^d: what float() returns for a decimal
\* literal with digits n and d digits after the point (d <= 2).
DecToFloat(n, d) ==
    [neg |-> FALSE, mag |-> DivRound(<<n * 2^11, 0, 0>>, 10^d)]


\* The nearest whole number of cents of a non-negative amount below 2^13,
\* i.e. the amount as the two-decimal figure that is displayed for it.
CentsOf(x) ==
    LET l == x.mag[3] * 100
        m == x.mag[2] * 100 + (l \div LimbBase)
        h == x.mag[1] * 100 + (m \div LimbBase)
    IN  (h \div 2^11) + (IF h % 2^11 >= 2^10 THEN 1 ELSE 0)

(***************************************************************************)
(* Strings: sequences of one-character strings, with the str methods the   *)
(* code uses.                                                              *)
(***************************************************************************)
UpperLetters == <<"A","B","C","D","E","F","G","H","I","J","K","L","M",
                  "N","O","P","Q","R","S","T","U","V","W","X","Y","Z">>
LowerLetters == <<"a","b","c","d","e","f","g","h","i","j","k","l","m",
                  "n","o","p","q","r","s","t","u","v","w","x","y","z">>
Digits == <<"0","1","2","3","4","5","6","7","8","9">>

IndexIn(seq, c) == IF \E i \in DOMAIN seq : seq[i] = c
                     THEN CHOOSE i \in DOMAIN seq : seq[i] = c ELSE 0

LowerChar(c) == IF IndexIn(UpperLetters, c) > 0
                  THEN LowerLetters[IndexIn(UpperLetters, c)] ELSE c
UpperChar(c) == IF IndexIn(LowerLetters, c) > 0
                  THEN UpperLetters[IndexIn(LowerLetters, c)] ELSE c

\* str.lower(), str.upper()
Lower(s) == [i \in DOMAIN s |-> LowerChar(s[i])]
Upper(s) == [i \in DOMAIN s |-> UpperChar(s[i])]

\* c in s, for a character c
HasChar(s, c) == \E i \in DOMAIN s : s[i] = c

\* sub in s, for a string sub
Contains(s, sub) ==
    \E i \in 0..(Len(s) - Len(sub)) : SubSeq(s, i + 1, i + Len(sub)) = sub

\* s.replace(c, '')
Remove(s, c) == SelectSeq(s, LAMBDA ch : ch # c)

\* s.isdigit()
IsDigitStr(s) == s # <<>> /\ \A i \in DOMAIN s : IndexIn(Digits, s[i]) > 0

\* s.strip()
Strip(s) ==
    IF \A i \in DOMAIN s : s[i] = " " THEN <<>>
    ELSE LET a == CHOOSE i \in DOMAIN s :
                      s[i] # " " /\ \A j \in 1..(i - 1) : s[j] = " "
             b == CHOOSE i \in DOMAIN s :
                      s[i] # " " /\ \A j \in (i + 1)..Len(s) : s[j] = " "
         IN  SubSeq(s, a, b)

\* s.split(c): the pieces between the occurrences of c, empty ones kept
RECURSIVE SplitOn(_, _)
SplitOn(s, c) ==
    IF ~HasChar(s, c) THEN <<s>>
    ELSE LET i == CHOOSE k \in DOMAIN s : s[k] = c /\ \A j \in 1..(k - 1) : s[j] # c
         IN  <<SubSeq(s, 1, i - 1)>> \o SplitOn(SubSeq(s, i + 1, Len(s)), c)

\* s.split(): the maximal runs of non-blank characters
SplitWS(s) == SelectSeq(SplitOn(s, " "), LAMBDA t : t # <<>>)

\* ' '.join(parts)
RECURSIVE JoinSp(_)
JoinSp(parts) ==
    IF parts = <<>> THEN <<>>
    ELSE IF Len(parts) = 1 THEN parts[1]
    ELSE parts[1] \o <<" ">> \o JoinSp(Tail(parts))

\* The text of a line from its tokens, as it is pasted
Line(tokens) == JoinSp(tokens)

RECURSIVE DigitsValue(_)
DigitsValue(s) ==
    IF s = <<>> THEN 0
    ELSE 10 * DigitsValue(SubSeq(s, 1, Len(s) - 1)) + (IndexIn(Digits, s[Len(s)]) - 1)

\* float(s) for a string over digits, '.', and other characters that spell
\* no sign, exponent, underscore, 'inf' or 'nan': a decimal literal with at
\* least one digit and at most one point is converted, anything else raises
\* ValueError (ok = FALSE).
ParseFloat(s) ==
    LET pieces == SplitOn(s, ".")
        ip     == pieces[1]
        fp     == IF Len(pieces) = 2 THEN pieces[2] ELSE <<>>
        wellformed ==
            /\ Len(pieces) <= 2
            /\ ip \o fp # <<>>
            /\ IsDigitStr(ip \o fp)
    IN  IF wellformed
          THEN [ok |-> TRUE, val |-> DecToFloat(DigitsValue(ip \o fp), Len(fp))]
          ELSE [ok |-> FALSE, val |-> FZero]


\* A missing value (None, NaN).  No string of the program is empty where a
\* missing value can stand: tokens are non-empty and an empty cell of the
\* uploaded file is read as NaN.
None == <<>>

(***************************************************************************)
(* ReconciliationProcessor.parse_pasted_data                               *)
(***************************************************************************)

\* The test of line 36 on one token
IsAmountToken(part) ==
    \/ HasChar(part, "$")
    \/ IsDigitStr(Remove(Remove(part, ","), ".")) /\ HasChar(part, ".")

\* The scan of lines 32-40 from token i on; an index of 0 stands for -1.
RECURSIVE ScanParts(_, _, _)
ScanParts(parts, i, amount_idx) ==
    IF i > Len(parts) THEN [amount_idx |-> amount_idx, email_idx |-> 0]
    ELSE IF IsAmountToken(parts[i]) THEN ScanParts(parts, i + 1, i)
    ELSE IF HasChar(parts[i], "@") THEN [amount_idx |-> amount_idx, email_idx |-> i]
    ELSE ScanParts(parts, i + 1, amount_idx)

\* float(part.replace('$', '').replace(',', ''))
ParseAmount(part) == ParseFloat(Remove(Remove(part, "$"), ","))

\* Lines 54-58
LoginIds(login_field) ==
    IF HasChar(login_field, ",")
      THEN LET ps == SplitOn(login_field, ",") IN [k \in DOMAIN ps |-> Strip(ps[k])]
      ELSE <<Strip(login_field)>>

\* Lines 60-65: riseworks_data is kept in insertion order, as the dict is
AddRiseworks(rd, email, amount, login_ids) ==
    IF \E k \in DOMAIN rd : rd[k].email = email
      THEN [k \in DOMAIN rd |->
              IF rd[k].email = email
                THEN [email |-> email,
                      total_amount |-> FAdd(rd[k].total_amount, amount),
                      logins |-> rd[k].logins \o login_ids]
                ELSE rd[k]]
      ELSE Append(rd, [email |-> email,
                       total_amount |-> FAdd(FZero, amount),
                       logins |-> login_ids])

\* Lines 32-58: what a Riseworks line holds.  ok = FALSE when an index is
\* missing (line 42) or float() raises ValueError (line 49), which line 80
\* catches.
RiseworksFields(parts) ==
    LET idx         == ScanParts(parts, 1, 0)
        login_field == JoinSp(SubSeq(parts, 1, idx.amount_idx - 1))
        amount      == ParseAmount(parts[idx.amount_idx])
    IN  IF idx.amount_idx > 0 /\ idx.email_idx > 0 /\ amount.ok
          THEN [ok |-> TRUE, email |-> parts[idx.email_idx],
                amount |-> amount.val, login_ids |-> LoginIds(login_field)]
          ELSE [ok |-> FALSE, email |-> None, amount |-> FZero, login_ids |-> <<>>]

\* RiseworksLine with the entry of the email created before the amount is
\* converted, so that a ValueError leaves it behind
RiseworksLine_EntryBeforeAmount(rd, cd, parts) ==
    LET idx == ScanParts(parts, 1, 0)
        f   == RiseworksFields(parts)
    IN  IF f.ok
          THEN [riseworks_data |-> AddRiseworks(rd, f.email, f.amount, f.login_ids),
                crypto_data |-> cd]
        ELSE IF idx.amount_idx > 0 /\ idx.email_idx > 0
          THEN [riseworks_data |->
                    AddRiseworks(rd, parts[idx.email_idx], FZero,
                        LoginIds(JoinSp(SubSeq(parts, 1, idx.amount_idx - 1)))),
                crypto_data |-> cd]
          ELSE [riseworks_data |-> rd, crypto_data |-> cd]

\* Lines 30-65, the Riseworks branch
RiseworksLine(rd, cd, parts) ==
    LET f == RiseworksFields(parts)
    IN  IF f.ok
          THEN [riseworks_data |-> AddRiseworks(rd, f.email, f.amount, f.login_ids),
                crypto_data |-> cd]
          ELSE [riseworks_data |-> rd, crypto_data |-> cd]

\* AltLine with the ALT rows grouped by login, as the Riseworks rows are by
\* email
AltLine_Grouped(rd, cd, parts) ==
    LET amount == ParseAmount(parts[2])
        login  == Strip(parts[1])
    IN  IF ~amount.ok THEN [riseworks_data |-> rd, crypto_data |-> cd]
        ELSE IF \E k \in DOMAIN cd : cd[k].Login = login
          THEN [riseworks_data |-> rd,
                crypto_data |-> [k \in DOMAIN cd |->
                    IF cd[k].Login = login
                      THEN [cd[k] EXCEPT !.Amount = FAdd(@, amount.val)]
                      ELSE cd[k]]]
          ELSE [riseworks_data |-> rd,
                crypto_data |-> Append(cd, [Login |-> login,
                                            Amount |-> amount.val,
                                            CustomerEmail |-> None,
                                            Payment_Method |-> "ALT"])]

\* Lines 67-78, the ALT branch
AltLine(rd, cd, parts) ==
    LET amount == ParseAmount(parts[2])
    IN  IF amount.ok
          THEN [riseworks_data |-> rd,
                crypto_data |-> Append(cd, [Login |-> Strip(parts[1]),
                                            Amount |-> amount.val,
                                            CustomerEmail |-> None,
                                            Payment_Method |-> "ALT"])]
          ELSE [riseworks_data |-> rd, crypto_data |-> cd]

\* Lines 18-81, one iteration of the loop over the lines
ParseLineBody(rd, cd, line) ==
    LET parts     == SplitWS(Strip(line))
        has_email == \E k \in DOMAIN parts : HasChar(parts[k], "@")
    IN  IF Len(parts) >= 2 /\ has_email /\ Len(parts) >= 3
          THEN RiseworksLine(rd, cd, parts)
        ELSE IF Len(parts) = 2 THEN AltLine(rd, cd, parts)
        ELSE [riseworks_data |-> rd, crypto_data |-> cd]

\* Lines 89-90: the distinct non-empty logins of one email
ValidLogins(logins) == {Strip(logins[k]) : k \in DOMAIN logins} \ {<<>>}

\* The orders in which the elements of a set can be listed
Orderings(S) ==
    {f \in [1..Cardinality(S) -> S] : \A a, b \in DOMAIN f : a # b => f[a] # f[b]}

\* EmailRows with the total of the email given to every login undivided
EmailRows_Undivided(entry, valid_logins) ==
    [k \in DOMAIN valid_logins |->
        [Login |-> valid_logins[k],
         Amount |-> entry.total_amount,
         CustomerEmail |-> entry.email,
         Payment_Method |-> "Riseworks"]]

\* Lines 92-102: the rows of one email, its logins listed in the order
\* valid_logins (the iteration order of a Python set, which is not fixed)
EmailRows(entry, valid_logins) ==
    [k \in DOMAIN valid_logins |->
        [Login |-> valid_logins[k],
         Amount |-> FDivInt(entry.total_amount, Len(valid_logins)),
         CustomerEmail |-> entry.email,
         Payment_Method |-> "Riseworks"]]


(***************************************************************************)
(* ReconciliationProcessor.reconcile_data                                  *)
(*                                                                         *)
(* A row of uploaded_df has the columns the matcher reads: Login,          *)
(* CustomerEmail ('Customer Email'), Plan, PaymentMethod ('Payment         *)
(* Method') and DisbursementAmount ('Disbursement Amount').  The columns   *)
(* it only copies into its output (Amount, Proof, Status and the three     *)
(* times) are left out.  A Login cell is [int, str]: an integer cell       *)
(* (str = None) or a text cell (int = -1).                                 *)
(***************************************************************************)

\* The code point of a character, for the order groupby sorts its keys in
Ord(c) ==
    IF IndexIn(Digits, c) > 0 THEN 47 + IndexIn(Digits, c)
    ELSE IF IndexIn(UpperLetters, c) > 0 THEN 64 + IndexIn(UpperLetters, c)
    ELSE IF IndexIn(LowerLetters, c) > 0 THEN 96 + IndexIn(LowerLetters, c)
    ELSE CASE c = " " -> 32 [] c = "$" -> 36 [] c = "," -> 44
           [] c = "." -> 46 [] c = "/" -> 47 [] c = "@" -> 64

\* a <= b in the order of Python strings
RECURSIVE StrLE(_, _)
StrLE(a, b) ==
    IF a = <<>> THEN TRUE
    ELSE IF b = <<>> THEN FALSE
    ELSE IF a[1] # b[1] THEN Ord(a[1]) < Ord(b[1])
    ELSE StrLE(Tail(a), Tail(b))

MinStr(S) == CHOOSE a \in S : \A b \in S : StrLE(a, b)

\* str(n) for an integer n >= 0
RECURSIVE IntToStr(_)
IntToStr(n) ==
    IF n < 10 THEN <<Digits[n + 1]>>
    ELSE IntToStr(n \div 10) \o <<Digits[(n % 10) + 1]>>

\* Line 122: uploaded_df['Login'].astype(str)
LoginAsStr(cell) == IF cell.str = None THEN IntToStr(cell.int) ELSE cell.str

AsTypeStr(df) == [k \in DOMAIN df |-> [df[k] EXCEPT !.Login = LoginAsStr(@)]]

\* email.lower().strip() and .str.lower().str.strip()
NormEmail(email) == Strip(Lower(email))

StrFutures   == <<"f","u","t","u","r","e","s">>
StrForex     == <<"f","o","r","e","x">>
StrRiseworks == <<"r","i","s","e","w","o","r","k","s">>
StrUSDC      == <<"U","S","D","C">>
StrUSDT      == <<"U","S","D","T">>

\* Lines 130-135.  A missing Plan gives False under na=False.
SectionMask(row, section_type) ==
    IF Lower(section_type) = StrForex
      THEN ~Contains(Lower(row.Plan), StrFutures)
      ELSE Contains(Lower(row.Plan), StrFutures)

\* Lines 147 and 155
IsRiseworksLabel(label) == Contains(Lower(label), StrRiseworks)
IsAltLabel(label) == Contains(Upper(label), StrUSDC) \/ Contains(Upper(label), StrUSDT)

\* FilterUploaded keeping the whole section when no signal selects a row
FilterUploaded_KeepSection(df, pdf, st) ==
    LET uploaded_df_section == SelectSeq(df, LAMBDA r : SectionMask(r, st))
        pasted_payment_methods == {pdf[k].Payment_Method : k \in DOMAIN pdf}
        selected == SelectSeq(uploaded_df_section, LAMBDA r :
            \/ "Riseworks" \in pasted_payment_methods /\ IsRiseworksLabel(r.PaymentMethod)
            \/ "ALT" \in pasted_payment_methods /\ IsAltLabel(r.PaymentMethod))
    IN  IF selected = <<>> THEN uploaded_df_section ELSE selected

\* Lines 129-165: the rows reconciled, from uploaded_df with Login as text
FilterUploaded(df, pdf, section_type) ==
    LET uploaded_df_section == SelectSeq(df, LAMBDA r : SectionMask(r, section_type))
        pasted_payment_methods == {pdf[k].Payment_Method : k \in DOMAIN pdf}
        riseworks_records ==
            IF "Riseworks" \in pasted_payment_methods
              THEN SelectSeq(uploaded_df_section,
                             LAMBDA r : IsRiseworksLabel(r.PaymentMethod))
              ELSE <<>>
        alt_records ==
            IF "ALT" \in pasted_payment_methods
              THEN SelectSeq(uploaded_df_section,
                             LAMBDA r : IsAltLabel(r.PaymentMethod))
              ELSE <<>>
    IN  riseworks_records \o alt_records

\* The 'sum' aggregation of the group k: the amounts of the rows whose key is
\* k, added in row order; keys and amounts are columns of one frame
RECURSIVE SumWhere(_, _, _)
SumWhere(keys, amounts, k) ==
    IF keys = <<>> THEN FZero
    ELSE LET n == Len(keys)
             s == SumWhere(SubSeq(keys, 1, n - 1), SubSeq(amounts, 1, n - 1), k)
         IN  IF keys[n] = k THEN FAdd(s, amounts[n]) ELSE s

\* ', '.join(parts)
RECURSIVE JoinComma(_)
JoinComma(parts) ==
    IF parts = <<>> THEN <<>>
    ELSE IF Len(parts) = 1 THEN parts[1]
    ELSE parts[1] \o <<",", " ">> \o JoinComma(Tail(parts))

RawEmail(r) == r.CustomerEmail

\* Columns of a frame
EmailCol(df) == [j \in DOMAIN df |-> df[j].CustomerEmail]
LoginCol(df) == [j \in DOMAIN df |-> df[j].Login]
Disbursement(df) == [j \in DOMAIN df |-> df[j].DisbursementAmount]
PastedAmount(df) == [j \in DOMAIN df |-> df[j].Amount]

\* Lines 215-236 and 272-293: matched when this holds, else a difference
WithinTolerance(excel_amount, pasted_amount) ==
    FLE(FAbs(FSub(excel_amount, pasted_amount)), DecToFloat(1, 2))

\* Lines 184-230: the record of one matched email.  Of the groups whose
\* key normalises to email, .iloc[0] takes the first in sorted key order.
EmailRecord(df, riseworks_pasted, email) ==
    LET ukey == MinStr({RawEmail(df[k]) : k \in {j \in DOMAIN df :
                                NormEmail(RawEmail(df[j])) = Lower(email)}})
        pkey == MinStr({RawEmail(riseworks_pasted[k]) :
                            k \in {j \in DOMAIN riseworks_pasted :
                                NormEmail(RawEmail(riseworks_pasted[j])) = Lower(email)}})
        members == SelectSeq(df, LAMBDA r : RawEmail(r) = ukey)
    IN  [Payment_Method |-> "Riseworks",
         CustomerEmail |-> ukey,
         Login |-> JoinComma([k \in DOMAIN members |-> members[k].Login]),
         Excel_Disbursement_Amount |-> SumWhere(EmailCol(df), Disbursement(df), ukey),
         Pasted_Amount |-> SumWhere(EmailCol(riseworks_pasted), PastedAmount(riseworks_pasted), pkey)]

\* Lines 182-203: the matched emails
MatchedEmails(df, riseworks_pasted) ==
    {NormEmail(RawEmail(df[k])) : k \in DOMAIN df}
        \cap {NormEmail(RawEmail(riseworks_pasted[k])) : k \in DOMAIN riseworks_pasted}

\* Lines 241-287: the record of one matched login
AltRecord(df, alt_pasted, login_key) ==
    LET first == CHOOSE k \in DOMAIN df :
                    /\ df[k].Login = login_key
                    /\ \A j \in 1..(k - 1) : df[j].Login # login_key
    IN  [Payment_Method |-> "ALT",
         CustomerEmail |-> df[first].CustomerEmail,
         Login |-> login_key,
         Excel_Disbursement_Amount |-> SumWhere(LoginCol(df), Disbursement(df), login_key),
         Pasted_Amount |-> SumWhere(LoginCol(alt_pasted), PastedAmount(alt_pasted), login_key)]

\* Lines 239-260: the matched logins
MatchedLogins(df, alt_pasted) ==
    {df[k].Login : k \in DOMAIN df} \cap {alt_pasted[k].Login : k \in DOMAIN alt_pasted}

\* Lines 232-236 and 289-293: a difference carries Amount_Difference
WithDifference(rec) ==
    [Payment_Method |-> rec.Payment_Method,
     CustomerEmail |-> rec.CustomerEmail,
     Login |-> rec.Login,
     Excel_Disbursement_Amount |-> rec.Excel_Disbursement_Amount,
     Pasted_Amount |-> rec.Pasted_Amount,
     Amount_Difference |-> FSub(rec.Excel_Disbursement_Amount, rec.Pasted_Amount)]

\* Lines 181-293: every record of the two joins
JoinRecords(df, pdf) ==
    LET riseworks_pasted == SelectSeq(pdf, LAMBDA r : r.Payment_Method = "Riseworks")
        alt_pasted       == SelectSeq(pdf, LAMBDA r : r.Payment_Method = "ALT")
    IN  {EmailRecord(df, riseworks_pasted, e) : e \in MatchedEmails(df, riseworks_pasted)}
          \cup {AltRecord(df, alt_pasted, l) : l \in MatchedLogins(df, alt_pasted)}

\* Lines 296-303: the keys of the records of both lists
MatchedUploadEmails(recs) ==
    {NormEmail(r.CustomerEmail) : r \in {x \in recs : x.Payment_Method = "Riseworks"}}
MatchedUploadLogins(recs) ==
    {r.Login : r \in {x \in recs : x.Payment_Method # "Riseworks"}}

\* UploadRowMatched asking for both joins to have succeeded
UploadRowMatched_Both(row, emails, logins) ==
    NormEmail(row.CustomerEmail) \in emails /\ row.Login \in logins

\* Lines 306-310: the test that keeps a row out of upload_only
UploadRowMatched(row, emails, logins) ==
    NormEmail(row.CustomerEmail) \in emails \/ row.Login \in logins

\* Lines 311-321: the row as upload_only holds it
UploadOnlyRow(row) ==
    [Login |-> row.Login, CustomerEmail |-> row.CustomerEmail,
     DisbursementAmount |-> row.DisbursementAmount]

\* Lines 305-321
UploadOnly(df, recs) ==
    LET kept == SelectSeq(df, LAMBDA row :
            ~UploadRowMatched(row, MatchedUploadEmails(recs), MatchedUploadLogins(recs)))
    IN  [k \in DOMAIN kept |-> UploadOnlyRow(kept[k])]

\* Lines 333-343: the test that keeps a pasted row out of paste_only
PasteRowMatched(row, recs) ==
    IF row.Payment_Method = "Riseworks"
      THEN NormEmail(row.CustomerEmail) \in MatchedUploadEmails(recs)
      ELSE row.Login \in {r.Login : r \in {x \in recs : x.Payment_Method = "ALT"}}

\* Lines 336-349: the row as paste_only holds it
PasteOnlyRow(row) ==
    [Payment_Method |-> row.Payment_Method, Login |-> row.Login,
     CustomerEmail |-> IF row.Payment_Method = "Riseworks"
                         THEN row.CustomerEmail ELSE None,
     Amount |-> row.Amount]

\* Lines 323-349
PasteOnly(pdf, recs) ==
    LET kept == SelectSeq(pdf, LAMBDA row : ~PasteRowMatched(row, recs))
    IN  [k \in DOMAIN kept |-> PasteOnlyRow(kept[k])]

\* Lines 115-372: the results of reconcile_data.  df is uploaded_df after
\* line 165.  all_matched and all_amount_diff are built in the iteration
\* order of Python sets, which is not fixed: they are sets here.
ReconcileResults(df, pdf, section_type) ==
    LET recs == JoinRecords(df, pdf)
        all_matched == {r \in recs :
            WithinTolerance(r.Excel_Disbursement_Amount, r.Pasted_Amount)}
        all_amount_diff == {WithDifference(r) : r \in recs \ all_matched}
        all_upload_only == UploadOnly(df, recs)
        all_paste_only == PasteOnly(pdf, recs)
    IN  [matched |-> all_matched,
         amount_differences |-> all_amount_diff,
         upload_only |-> all_upload_only,
         paste_only |-> all_paste_only,
         summary |-> [matched |-> Cardinality(all_matched),
                      upload_only |-> Len(all_upload_only),
                      paste_only |-> Len(all_paste_only),
                      amount_differences |-> Cardinality(all_amount_diff),
                      total_upload_records |-> Len(df),
                      total_pasted_records |-> Len(pdf),
                      section_type |-> section_type]]


(***************************************************************************)
(* Inputs                                                                  *)
(***************************************************************************)
MaxLines == 2
MaxRows == 3

Tok1      == <<"1">>
Tok2      == <<"2">>
Tok3      == <<"3">>
Tok23     == <<"2", ",", "3">>
TokX      == <<"x">>
Tok100    == <<"$", "1", "0", "0", ".", "0", "0">>
Tok100p01 == <<"1", "0", "0", ".", "0", "1">>
Tok100p02 == <<"$", "1", "0", "0", ".", "0", "2">>
Tok50     == <<"$", "5", "0", ".", "0", "0">>
TokBadAmt == <<"$", "x">>
EmailA    == <<"a", "@", "x">>
EmailAUp  == <<"A", "@", "x">>
EmailB    == <<"b", "@", "x">>

\* The lines a pasted block is made of
PastedLines ==
    { Line(<<Tok1, Tok100, EmailA>>),        \* 1 $100.00 a@x
      Line(<<Tok2, Tok100p01, EmailAUp>>),   \* 2 100.01 A@x
      Line(<<Tok23, Tok100p01, EmailA>>),    \* 2,3 100.01 a@x
      Line(<<Tok3, Tok100p01>>),             \* 3 100.01
      Line(<<Tok1, Tok100p02>>),             \* 1 $100.02
      Line(<<Tok3, TokBadAmt, EmailB>>),     \* 3 $x b@x
      Line(<<Tok3, TokX>>),                  \* 3 x
      Line(<<TokX, TokX, TokX>>),            \* x x x
      Line(<<Tok50, TokX, EmailA>>),         \* $50.00 x a@x
      Line(<<Tok1, Tok50, Tok100p01, EmailA>>),  \* 1 $50.00 100.01 a@x
      Line(<<TokX, Tok100p01>>) }            \* x 100.01

SeqsUpTo(S, n) == UNION {[1..k -> S] : k \in 0..n}

\* pasted_text.strip().split('\n') of the pasted blocks
Texts == SeqsUpTo(PastedLines, MaxLines)

IntCell(n) == [int |-> n, str |-> None]

PlanForex   == <<"F", "o", "r", "e", "x">>
PlanFutures == <<"F", "U", "T", "U", "R", "E", "S", " ", "x">>
LabelRise   == <<"R", "i", "s", "e", "w", "o", "r", "k", "s">>
LabelUsdt   == <<"u", "s", "d", "t">>
LabelBoth   == <<"R", "i", "s", "e", "w", "o", "r", "k", "s", "/", "U", "S", "D", "C">>
LabelBank   == <<"B", "a", "n", "k">>

UploadRow(login, email, plan, method, cents) ==
    [Login |-> IntCell(login), CustomerEmail |-> email, Plan |-> plan,
     PaymentMethod |-> method, DisbursementAmount |-> DecToFloat(cents, 2)]

\* The rows an uploaded ledger is made of, in file order
LedgerRows ==
    << UploadRow(1, EmailA,   PlanForex,   LabelRise, 10000),
       UploadRow(2, <<" ">> \o EmailAUp, PlanForex, LabelRise, 5000),
       UploadRow(3, EmailB,   PlanForex,   LabelUsdt, 10001),
       UploadRow(4, EmailB,   None,        LabelBoth,  5000),
       UploadRow(1, EmailA,   PlanFutures, LabelRise, 10000),
       UploadRow(3, EmailB,   PlanForex,   LabelBank,  5000),
       [UploadRow(0, EmailB,  PlanForex,   LabelUsdt, 10001)
            EXCEPT !.Login = [int |-> 0, str |-> <<"X">>]] >>

\* The ledgers: at most MaxRows of the rows, kept in file order
Ledgers ==
    LET picks == {S \in SUBSET DOMAIN LedgerRows : Cardinality(S) <= MaxRows}
        Pick(S) == SelectSeq([k \in DOMAIN LedgerRows |-> IF k \in S THEN <<LedgerRows[k]>> ELSE <<>>],
                             LAMBDA x : x # <<>>)
    IN  {[k \in DOMAIN Pick(S) |-> Pick(S)[k][1]] : S \in picks}

SectionTypes == {<<"F", "o", "r", "e", "x">>, <<"F", "u", "t", "u", "r", "e", "s">>}

(***************************************************************************)
(* State                                                                   *)
(***************************************************************************)
VARIABLES
    pc,              \* "parse", then "none" (parse_pasted_data returned None)
                     \* or "parsed", then "done" (reconcile_data returned)
    pasted_text,     \* the lines of the pasted block
    line_no,         \* the line the loop of line 18 is at
    email_no,        \* the entry the loop of line 87 is at
    riseworks_data,  \* line 15
    crypto_data,     \* line 16
    final_data,      \* line 84
    pasted_df,       \* the DataFrame returned by parse_pasted_data
    uploaded_df,     \* reconcile_data's argument
    section_type,    \* reconcile_data's argument
    filtered_df,     \* uploaded_df after line 165
    results,         \* the results returned by reconcile_data
    session_state,   \* st.session_state: the keys present and their values
    uploaded_file,   \* the value of the st.file_uploader widget
    last_run,        \* the interaction of the last script run and how it ended
    gw_input,        \* a gateway tab, its uploaded files and its chosen dates
    df_psp,          \* the tab's cleaned PSP rows of the window
    df_ord,          \* the tab's cleaned order rows of the window
    df_merged,       \* the tab's final set
    gw_session       \* st.session_state of Zen_BP_CB_futures.py

vars == <<pc, pasted_text, line_no, email_no, riseworks_data, crypto_data,
          final_data, pasted_df, uploaded_df, section_type, filtered_df, results,
          session_state, uploaded_file, last_run,
          gw_input, df_psp, df_ord, df_merged, gw_session>>

\* The state of the gateway tabs, and its value while they are not run
gatewayVars == <<gw_input, df_psp, df_ord, df_merged, gw_session>>

GatewayIdle ==
    /\ gw_input = [tab |-> "none"]
    /\ df_psp = <<>>
    /\ df_ord = <<>>
    /\ df_merged = <<>>
    /\ gw_session = <<>>

\* The state of the page while the processor alone is exercised
pageVars == <<session_state, uploaded_file, last_run>>

\* A missing value (Python None), and a value that is there
SNone == [is_none |-> TRUE]
Some(x) == [is_none |-> FALSE, val |-> x]

\* Lines 377-391: a key that is absent is created with its default
InitSessionState(ss) ==
    LET defaults == [uploaded_data |-> SNone, forex_data |-> SNone,
                     futures_data |-> SNone, forex_results |-> SNone,
                     futures_results |-> SNone, forex_processed |-> FALSE,
                     futures_processed |-> FALSE]
    IN  [k \in DOMAIN ss \cup DOMAIN defaults |->
            IF k \in DOMAIN ss THEN ss[k] ELSE defaults[k]]

NoRun == [action |-> "none", outcome |-> "none"]

NoResults ==
    [matched |-> {}, amount_differences |-> {}, upload_only |-> <<>>,
     paste_only |-> <<>>,
     summary |-> [matched |-> 0, upload_only |-> 0, paste_only |-> 0,
                  amount_differences |-> 0, total_upload_records |-> 0,
                  total_pasted_records |-> 0, section_type |-> None]]

Init ==
    /\ pc = "parse"
    /\ pasted_text \in Texts
    /\ line_no = 1
    /\ email_no = 1
    /\ riseworks_data = <<>>
    /\ crypto_data = <<>>
    /\ final_data = <<>>
    /\ pasted_df = <<>>
    /\ uploaded_df = <<>>
    /\ section_type = None
    /\ filtered_df = <<>>
    /\ results = NoResults
    /\ session_state = InitSessionState(<<>>)
    /\ uploaded_file = SNone
    /\ last_run = NoRun
    /\ GatewayIdle

\* Lines 18-81: one line of the pasted block
ParseLine ==
    /\ pc = "parse"
    /\ line_no <= Len(pasted_text)
    /\ LET st == ParseLineBody(riseworks_data, crypto_data, pasted_text[line_no])
       IN  /\ riseworks_data' = st.riseworks_data
           /\ crypto_data' = st.crypto_data
    /\ line_no' = line_no + 1
    /\ UNCHANGED <<pc, pasted_text, email_no, final_data, pasted_df,
                   uploaded_df, section_type, filtered_df, results>>
    /\ UNCHANGED <<pageVars, gatewayVars>>

\* Lines 87-102: the rows of one email
EmitEmail ==
    /\ pc = "parse"
    /\ line_no > Len(pasted_text)
    /\ email_no <= Len(riseworks_data)
    /\ \E valid_logins \in Orderings(ValidLogins(riseworks_data[email_no].logins)) :
          final_data' = final_data \o EmailRows(riseworks_data[email_no], valid_logins)
    /\ email_no' = email_no + 1
    /\ UNCHANGED <<pc, pasted_text, line_no, riseworks_data, crypto_data,
                   pasted_df, uploaded_df, section_type, filtered_df, results>>
    /\ UNCHANGED <<pageVars, gatewayVars>>

\* Lines 104-110: the ALT rows follow; None when there is no row
ParseReturn ==
    /\ pc = "parse"
    /\ line_no > Len(pasted_text)
    /\ email_no > Len(riseworks_data)
    /\ final_data' = final_data \o crypto_data
    /\ IF final_data' = <<>>
         THEN pc' = "none" /\ pasted_df' = pasted_df
         ELSE pc' = "parsed" /\ pasted_df' = final_data'
    /\ UNCHANGED <<pasted_text, line_no, email_no, riseworks_data, crypto_data,
                   uploaded_df, section_type, filtered_df, results>>
    /\ UNCHANGED <<pageVars, gatewayVars>>

\* Lines 115-372: reconcile_data on the parsed rows, an uploaded ledger and
\* a section
Reconcile ==
    /\ pc = "parsed"
    /\ \E df \in Ledgers, st \in SectionTypes :
          /\ uploaded_df' = df
          /\ section_type' = st
          /\ filtered_df' = FilterUploaded(AsTypeStr(df), pasted_df, st)
          /\ results' = ReconcileResults(filtered_df', pasted_df, st)
    /\ pc' = "done"
    /\ UNCHANGED <<pasted_text, line_no, email_no, riseworks_data, crypto_data,
                   final_data, pasted_df>>
    /\ UNCHANGED <<pageVars, gatewayVars>>

Next == ParseLine \/ EmitEmail \/ ParseReturn \/ Reconcile

Spec == Init /\ [][Next]_vars


(***************************************************************************)
(* Properties                                                              *)
(***************************************************************************)

\* The records of both result lists, without the Amount_Difference column
MatchRecords ==
    {[Payment_Method |-> r.Payment_Method, CustomerEmail |-> r.CustomerEmail,
      Login |-> r.Login,
      Excel_Disbursement_Amount |-> r.Excel_Disbursement_Amount,
      Pasted_Amount |-> r.Pasted_Amount] :
        r \in results.matched \cup results.amount_differences}

RiseworksRecords == {r \in MatchRecords : r.Payment_Method = "Riseworks"}
AltRecords == {r \in MatchRecords : r.Payment_Method = "ALT"}

CountRows(seq, row) == Cardinality({k \in DOMAIN seq : seq[k] = row})

NormEmailOf(r) == NormEmail(r.CustomerEmail)
NormEmailCol(df) == [j \in DOMAIN df |-> NormEmailOf(df[j])]

RiseworksPasted == SelectSeq(pasted_df, LAMBDA r : r.Payment_Method = "Riseworks")
AltPasted == SelectSeq(pasted_df, LAMBDA r : r.Payment_Method = "ALT")

\* |X - Y| in cents, X and Y read as two-decimal figures
AbsDiffCents(r) ==
    LET x == CentsOf(r.Excel_Disbursement_Amount)
        y == CentsOf(r.Pasted_Amount)
    IN  IF x >= y THEN x - y ELSE y - x

\* C1: every MatchRecord of either join is in matched iff its amounts X and
\* Y, as the two-decimal figures they stand for, have |X - Y| <= 0.01, and is
\* otherwise in amount_differences with Amount_Difference = X - Y, signed;
\* so X = 100.00, Y = 100.01 is matched.
C1_ToleranceBoundary ==
    pc = "done" =>
        /\ \A r \in results.matched : AbsDiffCents(r) <= 1
        /\ \A r \in results.amount_differences :
              /\ AbsDiffCents(r) > 1
              /\ CentsOf(FAbs(r.Amount_Difference)) = AbsDiffCents(r)
              /\ r.Amount_Difference.neg =
                    (CentsOf(r.Excel_Disbursement_Amount) < CentsOf(r.Pasted_Amount))

\* The amount of the row is summed into the record
SummedInto(row, rec) ==
    \/ rec.Payment_Method = "Riseworks" /\ row.CustomerEmail = rec.CustomerEmail
    \/ rec.Payment_Method = "ALT" /\ row.Login = rec.Login

\* C2: every row of the filtered uploaded set is summed into exactly one
\* MatchRecord or is exactly once in upload_only, never both and never
\* neither.
C2_UploadCoveredOnce ==
    pc = "done" =>
        \A k \in DOMAIN filtered_df :
            Cardinality({r \in MatchRecords : SummedInto(filtered_df[k], r)})
                + CountRows(results.upload_only, UploadOnlyRow(filtered_df[k])) = 1

\* The records a pasted row is keyed to
KeyedRecords(row) ==
    IF row.Payment_Method = "Riseworks"
      THEN {r \in RiseworksRecords : NormEmailOf(r) = NormEmailOf(row)}
      ELSE {r \in AltRecords : r.Login = row.Login}

\* The sum of the pasted rows that share the row's method and key
KeySum(row) ==
    IF row.Payment_Method = "Riseworks"
      THEN SumWhere(NormEmailCol(RiseworksPasted), PastedAmount(RiseworksPasted),
                    NormEmailOf(row))
      ELSE SumWhere(LoginCol(AltPasted), PastedAmount(AltPasted), row.Login)

\* C3: a pasted row is in paste_only iff its key (normalised email for a
\* Riseworks row, login for an ALT row) is the key of no MatchRecord, and a
\* row that is not has its amount in the Pasted_Amount of exactly one
\* MatchRecord: that record's Pasted_Amount is the sum of the rows of its key.
C3_PastedCoveredOnce ==
    pc = "done" =>
        \A k \in DOMAIN pasted_df :
            LET row == pasted_df[k]
            IN  IF KeyedRecords(row) = {}
                  THEN CountRows(results.paste_only, PasteOnlyRow(row))
                          = CountRows(pasted_df, row)
                  ELSE /\ CountRows(results.paste_only, PasteOnlyRow(row)) = 0
                       /\ Cardinality(KeyedRecords(row)) = 1
                       /\ \A r \in KeyedRecords(row) : r.Pasted_Amount = KeySum(row)


\* parse_pasted_data has returned
ParseReturned == pc \in {"none", "parsed", "done"}

\* The tokens of a pasted line
PartsOf(line) == SplitWS(Strip(line))

\* The Riseworks lines of the block, as the fields the scan takes from them
RiseworksLinesOf(text) ==
    LET fs == [k \in DOMAIN text |->
                  IF Len(PartsOf(text[k])) >= 3
                       /\ \E j \in DOMAIN PartsOf(text[k]) : HasChar(PartsOf(text[k])[j], "@")
                    THEN RiseworksFields(PartsOf(text[k]))
                    ELSE [ok |-> FALSE, email |-> None, amount |-> FZero,
                          login_ids |-> <<>>]]
    IN  SelectSeq(fs, LAMBDA f : f.ok)

RECURSIVE SumAmounts(_)
SumAmounts(amounts) ==
    IF amounts = <<>> THEN FZero
    ELSE FAdd(SumAmounts(SubSeq(amounts, 1, Len(amounts) - 1)), amounts[Len(amounts)])

\* |x - y| <= 1e-9, the bound being 1e-9 rounded down to a multiple of 2^-59
Within1e9(x, y) ==
    MagLE(FAbs(FSub(x, y)).mag,
          <<0, 576460752 \div LimbBase, 576460752 % LimbBase>>)

\* What C4 says of the email e: with a1..an the amounts of its lines and k
\* its distinct identities, k rows are emitted for e, one per identity, each
\* with Amount (a1+...+an)/k; for k >= conserved_from the amounts of the rows
\* sum to a1+...+an (within 1e-9).
EmailSplitHolds(e, conserved_from) ==
    LET fs    == SelectSeq(RiseworksLinesOf(pasted_text), LAMBDA f : f.email = e)
        total == SumAmounts([j \in DOMAIN fs |-> fs[j].amount])
        ids   == UNION {{fs[j].login_ids[n] : n \in DOMAIN fs[j].login_ids} :
                            j \in DOMAIN fs} \ {<<>>}
        k     == Cardinality(ids)
        rows  == SelectSeq(final_data, LAMBDA r :
                     r.Payment_Method = "Riseworks" /\ r.CustomerEmail = e)
    IN  /\ Len(rows) = k
        /\ {rows[j].Login : j \in DOMAIN rows} = ids
        /\ \A j \in DOMAIN rows : rows[j].Amount = FDivInt(total, k)
        /\ k >= conserved_from =>
              Within1e9(SumAmounts([j \in DOMAIN rows |-> rows[j].Amount]), total)

RiseworksEmailsOf(text) ==
    {RiseworksLinesOf(text)[j].email : j \in DOMAIN RiseworksLinesOf(text)}


\* C4 as claimed: for every email of the Riseworks lines, with amounts
\* a1..an and k distinct identities, exactly k rows are emitted, each with
\* Amount (a1+...+an)/k, and the emitted amounts sum to a1+...+an.
C4_EmailSplitConserves ==
    ParseReturned =>
        \A e \in RiseworksEmailsOf(pasted_text) : EmailSplitHolds(e, 0)

\* C4 as amended: exactly k rows are emitted, k counting the distinct
\* non-empty identities, each with Amount (a1+...+an)/k; the emitted amounts
\* sum to a1+...+an when k >= 1, and nothing is emitted when k = 0.
C4_EmailSplitConservesForIdentities ==
    ParseReturned =>
        \A e \in RiseworksEmailsOf(pasted_text) : EmailSplitHolds(e, 1)

\* An email of two lines with three identities in all has been split
C4_Witness ==
    /\ pc = "parsed"
    /\ \E e \in RiseworksEmailsOf(pasted_text) :
          /\ Len(SelectSeq(RiseworksLinesOf(pasted_text), LAMBDA f : f.email = e)) = 2
          /\ Len(SelectSeq(pasted_df, LAMBDA r : r.CustomerEmail = e)) = 3

\* A decimal literal: digits with at most one point, and at least one digit
DecimalLiteral(s) ==
    /\ s # <<>>
    /\ \A i \in DOMAIN s : s[i] = "." \/ IndexIn(Digits, s[i]) > 0
    /\ Cardinality({i \in DOMAIN s : s[i] = "."}) <= 1
    /\ \E i \in DOMAIN s : s[i] # "."

\* A line '<id> <amount>' of exactly two tokens, the amount a decimal number
\* once '$' and ',' are removed
IsAltLine(line) ==
    /\ Len(PartsOf(line)) = 2
    /\ DecimalLiteral(Remove(Remove(PartsOf(line)[2], "$"), ","))

AltRowOf(line) ==
    [Login |-> PartsOf(line)[1],
     Amount |-> ParseAmount(PartsOf(line)[2]).val,
     CustomerEmail |-> None,
     Payment_Method |-> "ALT"]

\* C5: the ALT rows are, in order, one row per two-token line with a decimal
\* amount, with Login the first token, Amount the amount, Payment_Method ALT
\* and no email; n such lines give n rows.
C5_AltOnePerLine ==
    LET alt == SelectSeq(SubSeq(pasted_text, 1, line_no - 1), IsAltLine)
    IN  /\ crypto_data = [k \in DOMAIN alt |-> AltRowOf(alt[k])]
        /\ ParseReturned =>
              SelectSeq(final_data, LAMBDA r : r.Payment_Method = "ALT") = crypto_data

\* Two ALT lines with the same id have given two rows
C5_Witness ==
    /\ pc = "parsed"
    /\ Len(SelectSeq(pasted_text, IsAltLine)) = 2
    /\ Len(pasted_df) = 2
    /\ pasted_df[1].Login = pasted_df[2].Login
    /\ pasted_df[1].CustomerEmail = None

\* The email token of a line: the first token with '@' that is no amount
IsEmailToken(part) == HasChar(part, "@") /\ ~IsAmountToken(part)

\* A line of one of the two shapes whose amount token is numeric
WellFormedLine(line) ==
    LET parts == PartsOf(line)
        riseworks_shape ==
            Len(parts) >= 3 /\ \E j \in DOMAIN parts : HasChar(parts[j], "@")
    IN  \/ /\ riseworks_shape
           /\ \E ei \in DOMAIN parts, ai \in DOMAIN parts :
                 /\ IsEmailToken(parts[ei])
                 /\ \A j \in 1..(ei - 1) : ~IsEmailToken(parts[j])
                 /\ ai < ei
                 /\ IsAmountToken(parts[ai])
                 /\ \A j \in (ai + 1)..(ei - 1) : ~IsAmountToken(parts[j])
                 /\ ParseAmount(parts[ai]).ok
        \/ /\ ~riseworks_shape
           /\ Len(parts) = 2
           /\ ParseAmount(parts[2]).ok

RECURSIVE ParseLines(_)
ParseLines(text) ==
    IF text = <<>> THEN [riseworks_data |-> <<>>, crypto_data |-> <<>>]
    ELSE LET st == ParseLines(SubSeq(text, 1, Len(text) - 1))
         IN  ParseLineBody(st.riseworks_data, st.crypto_data, text[Len(text)])

\* The rows parse_pasted_data emits from the grouped data
RowsOfEmail(entry) ==
    UNION {{EmailRows(entry, order)[n] : n \in DOMAIN order} :
              order \in Orderings(ValidLogins(entry.logins))}

RowsOf(st) ==
    UNION {RowsOfEmail(st.riseworks_data[j]) : j \in DOMAIN st.riseworks_data}
        \cup {st.crypto_data[j] : j \in DOMAIN st.crypto_data}

\* C6: malformed lines change nothing: after any number of lines the
\* per-email totals, the identity lists and the ALT rows are those of the
\* well-formed lines alone, and the rows returned are those that parsing the
\* block without its malformed lines gives.
C6_MalformedLinesIgnored ==
    LET good == SelectSeq(SubSeq(pasted_text, 1, line_no - 1), WellFormedLine)
    IN  /\ riseworks_data = ParseLines(good).riseworks_data
        /\ crypto_data = ParseLines(good).crypto_data
        /\ ParseReturned =>
              {final_data[j] : j \in DOMAIN final_data} = RowsOf(ParseLines(good))

\* A block of one well-formed line and one line with a non-numeric amount
\* token has given exactly one row
C6_Witness ==
    /\ pc = "parsed"
    /\ Len(pasted_text) = 2
    /\ Len(pasted_df) = 1
    /\ \E k \in DOMAIN pasted_text :
          /\ ~WellFormedLine(pasted_text[k])
          /\ \E j \in DOMAIN PartsOf(pasted_text[k]) :
                /\ IsAmountToken(PartsOf(pasted_text[k])[j])
                /\ ~ParseAmount(PartsOf(pasted_text[k])[j]).ok


\* C7: upload_only holds exactly the rows of the filtered set whose
\* normalised email is the key of no Riseworks MatchRecord and whose login is
\* the key of no ALT MatchRecord; either key being one keeps the row out.
C7_UploadOnlyExact ==
    pc = "done" =>
        LET emails == {NormEmailOf(r) : r \in RiseworksRecords}
            logins == {r.Login : r \in AltRecords}
            kept   == SelectSeq(filtered_df, LAMBDA row :
                          NormEmailOf(row) \notin emails /\ row.Login \notin logins)
        IN  results.upload_only = [k \in DOMAIN kept |-> UploadOnlyRow(kept[k])]

\* One row is kept out by its login alone, another by its email alone, and a
\* third is in upload_only
C7_Witness ==
    /\ pc = "done"
    /\ results.upload_only # <<>>
    /\ \E k \in DOMAIN filtered_df :
          /\ NormEmailOf(filtered_df[k]) \notin {NormEmailOf(r) : r \in RiseworksRecords}
          /\ filtered_df[k].Login \in {r.Login : r \in AltRecords}
    /\ \E k \in DOMAIN filtered_df :
          /\ NormEmailOf(filtered_df[k]) \in {NormEmailOf(r) : r \in RiseworksRecords}
          /\ filtered_df[k].Login \notin {r.Login : r \in AltRecords}

\* C8: for every normalised email on both sides there is exactly one
\* Riseworks MatchRecord, whose amounts are the sums over all filtered rows
\* and over all Riseworks pasted rows with that normalised email.
C8_EmailJoinSumsAll ==
    pc = "done" =>
        \A e \in {NormEmailOf(filtered_df[k]) : k \in DOMAIN filtered_df}
                    \cap {NormEmailOf(RiseworksPasted[k]) : k \in DOMAIN RiseworksPasted} :
            /\ Cardinality({r \in RiseworksRecords : NormEmailOf(r) = e}) = 1
            /\ \A r \in {x \in RiseworksRecords : NormEmailOf(x) = e} :
                  /\ r.Excel_Disbursement_Amount =
                        SumWhere(NormEmailCol(filtered_df), Disbursement(filtered_df), e)
                  /\ r.Pasted_Amount =
                        SumWhere(NormEmailCol(RiseworksPasted), PastedAmount(RiseworksPasted), e)

\* The row's Plan is of the section and its label is one a present signal
\* selects
WantedRow(row) ==
    /\ IF Lower(section_type) = StrForex
         THEN ~Contains(Lower(row.Plan), StrFutures)
         ELSE Contains(Lower(row.Plan), StrFutures)
    /\ \/ RiseworksPasted # <<>> /\ Contains(Lower(row.PaymentMethod), StrRiseworks)
       \/ AltPasted # <<>> /\ (\/ Contains(Upper(row.PaymentMethod), StrUSDC)
                               \/ Contains(Upper(row.PaymentMethod), StrUSDT))

\* C9: the filtered set holds each uploaded row at most once, and holds it
\* iff its Plan is of the section and its label matches a present signal;
\* total_upload_records is the number of such rows.
C9_FilterIsSubset ==
    pc = "done" =>
        LET src == AsTypeStr(uploaded_df)
        IN  /\ \A k \in DOMAIN src :
                  CountRows(filtered_df, src[k]) = IF WantedRow(src[k]) THEN 1 ELSE 0
            /\ results.summary.total_upload_records =
                  Cardinality({k \in DOMAIN src : WantedRow(src[k])})

\* The rows of the section, and whether no signal selects any of them
SectionRows ==
    SelectSeq(AsTypeStr(uploaded_df), LAMBDA row :
        IF Lower(section_type) = StrForex
          THEN ~Contains(Lower(row.Plan), StrFutures)
          ELSE Contains(Lower(row.Plan), StrFutures))

NoRowSelected == \A k \in DOMAIN SectionRows : ~WantedRow(SectionRows[k])

AllColumns ==
    {"Login", "Customer Email", "Plan", "Amount", "Disbursement Amount", "Proof",
     "Status", "Requested Time", "Approved Time", "Disbursed Time", "Payment Method"}

\* Line 413
required_columns ==
    <<"Login", "Customer Email", "Plan", "Amount", "Disbursement Amount", "Proof",
      "Status", "Requested Time", "Approved Time", "Disbursed Time">>

\* Line 414
missing_columns(df) ==
    SelectSeq(required_columns, LAMBDA col : col \notin df.columns)

StrDisbursed == <<"d", "i", "s", "b", "u", "r", "s", "e", "d">>
StatusDisbursed == <<"D", "i", "s", "b", "u", "r", "s", "e", "d">>
StatusPending == <<"P", "e", "n", "d", "i", "n", "g">>

\* A ledger row with its Status
WithStatus(row, status) ==
    [Login |-> row.Login, CustomerEmail |-> row.CustomerEmail, Plan |-> row.Plan,
     PaymentMethod |-> row.PaymentMethod,
     DisbursementAmount |-> row.DisbursementAmount, Status |-> status]

PlanForexFutures ==
    <<"F", "o", "r", "e", "x", " ", "F", "u", "t", "u", "r", "e", "s">>

\* The rows of the uploaded files: a Forex and a Futures Riseworks row, a
\* Forex row that is not disbursed, and a row whose Plan names both sections
FileRows ==
    << WithStatus(UploadRow(1, EmailA, PlanForex, LabelRise, 10000), StatusDisbursed),
       WithStatus(UploadRow(1, EmailA, PlanFutures, LabelRise, 10000), StatusDisbursed),
       WithStatus(UploadRow(3, EmailB, PlanForex, LabelUsdt, 10001), StatusPending),
       WithStatus(UploadRow(4, EmailB, PlanForexFutures, LabelRise, 5000), StatusDisbursed) >>

\* The same rows, the Futures row having no Customer Email
FileRowsNoEmail ==
    [FileRows EXCEPT ![2] = WithStatus(UploadRow(1, None, PlanFutures, LabelRise, 10000),
                                       StatusDisbursed)]

\* The files the user can choose: a complete ledger, one with a row without
\* email, and one ledger for each field, lacking that field
UploadedFiles ==
    {[columns |-> AllColumns, rows |-> FileRows],
     [columns |-> AllColumns, rows |-> FileRowsNoEmail]}
        \cup {[columns |-> AllColumns \ {c}, rows |-> FileRows] : c \in AllColumns}

\* What the Riseworks area can hold: nothing, one Riseworks line, one line
\* that gives no row; and the ALT area: nothing, one ALT line
RiseworksAreaTexts ==
    {<<>>, <<Line(<<Tok1, Tok100, EmailA>>)>>, <<Line(<<TokX, TokX, TokX>>)>>}

AltAreaTexts == {<<>>, <<Line(<<Tok1, Tok100p02>>)>>}

\* Lines 404-421 and 602-604: the upload handler of a script run; stopped
\* tells that st.stop() has ended the run
UploadHandler(ss, file) ==
    IF file.is_none THEN [ss |-> ss, stopped |-> FALSE, outcome |-> "none"]
    ELSE IF missing_columns(file.val) # <<>>
      THEN [ss |-> ss, stopped |-> TRUE, outcome |-> "rejected"]
    ELSE IF "Payment Method" \notin file.val.columns
      THEN [ss |-> [ss EXCEPT !["uploaded_data"] = file], stopped |-> TRUE,
            outcome |-> "error"]
      ELSE [ss |-> [ss EXCEPT !["uploaded_data"] = file], stopped |-> FALSE,
            outcome |-> "stored"]

\* The top of a script run, up to the sections
RunTop(ss, file) == UploadHandler(InitSessionState(ss), file)

\* Line 607 reached and true: the sections are shown
SectionsShown(top) == ~top.stopped /\ ~top.ss["uploaded_data"].is_none

\* The frames parse_pasted_data can return for the entries of riseworks_data
RECURSIVE EmittedFrames(_)
EmittedFrames(rd) ==
    IF rd = <<>> THEN {<<>>}
    ELSE {f \o EmailRows(rd[Len(rd)], order) :
              f \in EmittedFrames(SubSeq(rd, 1, Len(rd) - 1)),
              order \in Orderings(ValidLogins(rd[Len(rd)].logins))}

\* Lines 11-110: the frames parse_pasted_data can return; <<>> stands for None
ParsedFrames(text) ==
    {f \o ParseLines(text).crypto_data : f \in EmittedFrames(ParseLines(text).riseworks_data)}

\* Lines 668-672 and 926-930: the disbursed rows of the section
SectionDisbursed(df, futures) ==
    SelectSeq(df.rows, LAMBDA row :
        /\ Contains(Lower(row.Plan), StrFutures) = futures
        /\ Contains(Lower(row.Status), StrDisbursed))

\* reconcile_data raises: 'Payment Method' is no column (lines 147, 155), or
\* a row of the filtered set has no Customer Email (line 307)
ReconcileRaises(columns, rows, pdf, st) ==
    \/ "Payment Method" \notin columns
    \/ \E k \in DOMAIN FilterUploaded(AsTypeStr(rows), pdf, st) :
          FilterUploaded(AsTypeStr(rows), pdf, st)[k].CustomerEmail = None

\* Lines 921-923: the copies of the Futures text areas
StorePastedCopies(ss, riseworks_area, alt_area) ==
    [k \in DOMAIN ss \cup {"futures_riseworks_data", "futures_alt_data"} |->
        IF k = "futures_riseworks_data" THEN riseworks_area
        ELSE IF k = "futures_alt_data" THEN alt_area
        ELSE ss[k]]

ResultsKey(section) == IF section = "futures" THEN "futures_results" ELSE "forex_results"
ProcessedKey(section) == IF section = "futures" THEN "futures_processed" ELSE "forex_processed"
SectionType(section) ==
    IF section = "futures" THEN <<"F", "u", "t", "u", "r", "e", "s">>
    ELSE <<"F", "o", "r", "e", "x">>

\* StoreResults keeping one result for the page: the other section's result
\* is replaced as well
StoreResults_OneSlot(ss, section, res) ==
    [ss EXCEPT !["forex_results"] = Some(res), !["futures_results"] = Some(res),
               ![ProcessedKey(section)] = TRUE]

\* Lines 676-677 and 934-935
StoreResults(ss, section, res) ==
    [ss EXCEPT ![ResultsKey(section)] = Some(res), ![ProcessedKey(section)] = TRUE]

\* Lines 642-685 (Forex) and 900-943 (Futures): the handler of the Proceed
\* button, given the frames parse_pasted_data returns for the two areas
ProceedHandler(ss, section, riseworks_area, alt_area, riseworks_frame, alt_frame) ==
    IF riseworks_area = <<>> /\ alt_area = <<>>
      THEN [ss |-> ss, outcome |-> "no_input"]
    ELSE LET pasted == (IF riseworks_area # <<>> THEN riseworks_frame ELSE <<>>)
                         \o (IF alt_area # <<>> THEN alt_frame ELSE <<>>)
             copied == IF section = "futures"
                         THEN StorePastedCopies(ss, riseworks_area, alt_area)
                         ELSE ss
             df     == ss["uploaded_data"].val
             rows   == SectionDisbursed(df, section = "futures")
             st     == SectionType(section)
         IN  IF pasted = <<>> THEN [ss |-> ss, outcome |-> "no_data"]
             ELSE IF ReconcileRaises(df.columns, rows, pasted, st)
               THEN [ss |-> copied, outcome |-> "raised"]
               ELSE [ss |-> StoreResults(copied, section,
                               ReconcileResults(FilterUploaded(AsTypeStr(rows), pasted, st),
                                                pasted, st)),
                     outcome |-> "stored"]

\* Lines 1269-1270
ResetKeys ==
    {"uploaded_data", "forex_data", "futures_data", "forex_results",
     "futures_results", "forex_processed", "futures_processed"}

\* The reset deleting the results and not the flags
DeleteKeys_ResultsOnly(ss) ==
    [k \in DOMAIN ss \ (ResetKeys \ {"forex_processed", "futures_processed"}) |-> ss[k]]

\* Lines 1269-1272
DeleteKeys(ss) == [k \in DOMAIN ss \ ResetKeys |-> ss[k]]

parserVars == <<pasted_text, line_no, email_no, riseworks_data, crypto_data,
                final_data, pasted_df, uploaded_df, section_type, filtered_df, results>>

PageInit ==
    /\ pc = "page"
    /\ pasted_text = <<>>
    /\ line_no = 1
    /\ email_no = 1
    /\ riseworks_data = <<>>
    /\ crypto_data = <<>>
    /\ final_data = <<>>
    /\ pasted_df = <<>>
    /\ uploaded_df = <<>>
    /\ section_type = None
    /\ filtered_df = <<>>
    /\ results = NoResults
    /\ session_state = InitSessionState(<<>>)
    /\ uploaded_file = SNone
    /\ last_run = NoRun
    /\ GatewayIdle

\* The user puts a file in the uploader: a run with the upload handler
ChooseFile ==
    /\ pc = "page"
    /\ \E f \in UploadedFiles :
          /\ uploaded_file' = Some(f)
          /\ session_state' = RunTop(session_state, Some(f)).ss
          /\ last_run' = [action |-> "upload",
                          outcome |-> RunTop(session_state, Some(f)).outcome]
    /\ UNCHANGED <<pc, parserVars, gatewayVars>>

\* The user takes the file out of the uploader: a run without the handler
RemoveFile ==
    /\ pc = "page"
    /\ ~uploaded_file.is_none
    /\ uploaded_file' = SNone
    /\ session_state' = RunTop(session_state, SNone).ss
    /\ last_run' = [action |-> "remove", outcome |-> "none"]
    /\ UNCHANGED <<pc, parserVars, gatewayVars>>

\* A run in which the Proceed button of the section is clicked; st.rerun()
\* after a stored result runs the script once more
Proceed(section) ==
    /\ pc = "page"
    /\ SectionsShown(RunTop(session_state, uploaded_file))
    /\ \E riseworks_area \in RiseworksAreaTexts, alt_area \in AltAreaTexts :
          \E riseworks_frame \in ParsedFrames(riseworks_area),
             alt_frame \in ParsedFrames(alt_area) :
              LET h == ProceedHandler(RunTop(session_state, uploaded_file).ss, section,
                                      riseworks_area, alt_area, riseworks_frame, alt_frame)
              IN  /\ session_state' = IF h.outcome = "stored"
                                        THEN RunTop(h.ss, uploaded_file).ss
                                        ELSE h.ss
                  /\ last_run' = [action |-> "proceed_" \o section, outcome |-> h.outcome]
    /\ UNCHANGED <<pc, parserVars, uploaded_file, gatewayVars>>

ProceedForex == Proceed("forex")
ProceedFutures == Proceed("futures")

\* Lines 1269-1275: the keys are deleted and st.rerun() runs the script again
ResetAll ==
    /\ pc = "page"
    /\ ~RunTop(session_state, uploaded_file).stopped
    /\ session_state' =
          RunTop(DeleteKeys(RunTop(session_state, uploaded_file).ss), uploaded_file).ss
    /\ last_run' = [action |-> "reset", outcome |-> "none"]
    /\ UNCHANGED <<pc, parserVars, uploaded_file, gatewayVars>>

\* The truth value of a stored result: None is false, the dict of
\* reconcile_data, which is never empty, is true
Truthy(v) == ~v.is_none

\* Lines 1137-1153: what a stored result adds to the totals
Contribution(v) ==
    IF Truthy(v)
      THEN [matched |-> v.val.summary.matched,
            upload_only |-> v.val.summary.upload_only,
            paste_only |-> v.val.summary.paste_only,
            amount_differences |-> v.val.summary.amount_differences]
      ELSE [matched |-> 0, upload_only |-> 0, paste_only |-> 0, amount_differences |-> 0]

\* Lines 1171-1206: the row of a section in the breakdown
BreakdownRow(processed, v) ==
    IF processed /\ Truthy(v)
      THEN [Status |-> "Completed", Matched |-> v.val.summary.matched,
            UploadOnly |-> v.val.summary.upload_only,
            PasteOnly |-> v.val.summary.paste_only,
            AmountDifferences |-> v.val.summary.amount_differences]
      ELSE [Status |-> "Not Processed", Matched |-> 0, UploadOnly |-> 0,
            PasteOnly |-> 0, AmountDifferences |-> 0]

\* The master summary with the totals of the Forex result alone
MasterSummaryOf_ForexOnly(ss) ==
    [totals |-> Contribution(ss["forex_results"]),
     breakdown |-> [forex |-> BreakdownRow(ss["forex_processed"], ss["forex_results"]),
                    futures |-> BreakdownRow(ss["futures_processed"], ss["futures_results"])]]

\* Lines 1133-1211: the totals and the breakdown that are displayed
MasterSummaryOf(ss) ==
    LET forex   == Contribution(ss["forex_results"])
        futures == Contribution(ss["futures_results"])
    IN  [totals |-> [matched |-> forex.matched + futures.matched,
                     upload_only |-> forex.upload_only + futures.upload_only,
                     paste_only |-> forex.paste_only + futures.paste_only,
                     amount_differences |->
                         forex.amount_differences + futures.amount_differences],
         breakdown |-> [forex |-> BreakdownRow(ss["forex_processed"], ss["forex_results"]),
                        futures |-> BreakdownRow(ss["futures_processed"],
                                                 ss["futures_results"])]]

\* A run in which 'Generate Master Summary' is clicked
MasterSummary ==
    /\ pc = "page"
    /\ SectionsShown(RunTop(session_state, uploaded_file))
    /\ LET ss == RunTop(session_state, uploaded_file).ss
       IN  /\ ss["forex_processed"] \/ ss["futures_processed"]
           /\ session_state' = ss
           /\ last_run' = [action |-> "master_summary", outcome |-> "shown",
                           shown |-> MasterSummaryOf(ss)]
    /\ UNCHANGED <<pc, parserVars, uploaded_file, gatewayVars>>

\* Lines 8-375: the methods ReconciliationProcessor has
ProcessorMethods == {"parse_pasted_data", "reconcile_data"}

\* Lines 1227-1257: the export buttons that are shown, each with the method
\* of ReconciliationProcessor it calls
ExportButtons(ss) ==
    IF ~(Truthy(ss["forex_results"]) \/ Truthy(ss["futures_results"])) THEN {}
    ELSE {[action |-> "export_forex", method |-> "export_results"] :
              x \in {y \in {1} : Truthy(ss["forex_results"])}}
         \cup {[action |-> "export_futures", method |-> "export_results"] :
                   x \in {y \in {1} : Truthy(ss["futures_results"])}}
         \cup {[action |-> "export_combined", method |-> "export_combined_results"]}

\* A run in which an export button is clicked: the call of a method the
\* class does not have raises AttributeError, which nothing catches
Export ==
    /\ pc = "page"
    /\ SectionsShown(RunTop(session_state, uploaded_file))
    /\ \E b \in ExportButtons(RunTop(session_state, uploaded_file).ss) :
          last_run' = [action |-> b.action,
                       outcome |-> IF b.method \in ProcessorMethods
                                     THEN "exported" ELSE "raised"]
    /\ session_state' = RunTop(session_state, uploaded_file).ss
    /\ UNCHANGED <<pc, parserVars, uploaded_file, gatewayVars>>

PageNext ==
    \/ ChooseFile
    \/ RemoveFile
    \/ ProceedForex
    \/ ProceedFutures
    \/ ResetAll
    \/ MasterSummary
    \/ Export

PageSpec == PageInit /\ [][PageNext]_vars

\* The places where the page splits the ledger by Plan: the upload overview
\* (lines 427-429), the section filter of reconcile_data (130-135), the
\* Proceed handlers (668-669, 926-927), and the API totals of the two
\* reconciliation summaries (766-767, 1024-1025)
SplitSites == {"overview", "reconcile", "proceed", "summary"}

\* The sections whose frame the site puts a row of this Plan in
SectionsAt(site, plan) ==
    LET futures_mask == Contains(Lower(plan), StrFutures)
        forex_mask   == Contains(Lower(plan), StrForex) \/ ~futures_mask
    IN  CASE site = "reconcile" ->
               {s \in {"forex", "futures"} : SectionMask([Plan |-> plan], SectionType(s))}
          [] site = "summary" ->
               {s \in {"forex"} : forex_mask} \cup {s \in {"futures"} : futures_mask}
          [] OTHER ->
               {s \in {"forex"} : ~futures_mask} \cup {s \in {"futures"} : futures_mask}

\* The last run was a Proceed that stored nothing new
ProceedFailed(run) ==
    /\ run.action \in {"proceed_forex", "proceed_futures"}
    /\ run.outcome \in {"no_data", "raised"}

\* C11: a Proceed whose parsing gives no data or whose reconciliation raises
\* leaves every entry of the session state as it was.
C11_ProceedIsAtomic ==
    [][ProceedFailed(last_run') => session_state' = session_state]_vars

\* C12: a Proceed of one section, stored or failed, leaves the stored result
\* and the processed flag of the other section as they were.
C12_ProceedKeepsOtherSection ==
    [][/\ last_run'.action = "proceed_forex" =>
              /\ session_state'["futures_results"] = session_state["futures_results"]
              /\ session_state'["futures_processed"] = session_state["futures_processed"]
       /\ last_run'.action = "proceed_futures" =>
              /\ session_state'["forex_results"] = session_state["forex_results"]
              /\ session_state'["forex_processed"] = session_state["forex_processed"]]_vars

\* A Forex result has been stored while a Futures result was there, and the
\* two differ
C12_Witness ==
    /\ last_run = [action |-> "proceed_forex", outcome |-> "stored"]
    /\ ~session_state["futures_results"].is_none
    /\ session_state["futures_processed"]
    /\ session_state["forex_results"] # session_state["futures_results"]

\* C13: after Reset All the session state is the initial one: no uploaded
\* source, no results, both flags False and no copy of a pasted text.
C13_ResetClearsAll ==
    last_run.action = "reset" => session_state = InitSessionState(<<>>)

\* C14: a ledger that lacks one of the fields is never stored as
\* uploaded_data, so no reconciliation can be run on it.
C14_InvalidLedgerNeverStored ==
    \/ session_state["uploaded_data"].is_none
    \/ AllColumns \subseteq session_state["uploaded_data"].val.columns

(***************************************************************************)
(* Zen_BP_CB_futures.py: the ZEN, BridgerPay and Coins Buy tabs.  A PSP    *)
(* row is [id, ts, Amount, Rate, Gateway, eligible]: ts is the row's       *)
(* timestamp (accepted_at, processing_date, Created) in seconds, eligible  *)
(* tells that the row passes the tab's filters on channel, type, status    *)
(* and currency, Rate is used by Coins Buy alone.  An order row is [id,    *)
(* ts, PlanType, GrandTotal, Gateway], ts being 'Updated At'.              *)
(***************************************************************************)

\* datetime.combine(date, time(h, m, s)), in seconds
Combine(day, h, m, s) == ((day * 24 + h) * 60 + m) * 60 + s

\* x * k for a small integer k, correctly rounded
FMulInt(x, k) ==
    LET l == x.mag[3] * k
        m == x.mag[2] * k + (l \div LimbBase)
        h == x.mag[1] * k + (m \div LimbBase)
    IN  [neg |-> x.neg, mag |-> Round53(<<h, m % LimbBase, l % LimbBase>>, "zero")]

\* Lines 46, 68, 237, 293: the Gateway value a tab checks for; the Coins Buy
\* tab checks none
CheckedGateway(tab) ==
    CASE tab = "ZEN" -> Some("Zen Pay")
      [] tab = "BridgerPay" -> Some("Bridger Pay")
      [] OTHER -> SNone

\* Lines 46-48, 68-70, 237-239, 293-295: no row has another Gateway value
GatewayValid(tab, df) ==
    \/ CheckedGateway(tab).is_none
    \/ \A k \in DOMAIN df : df[k].Gateway = CheckedGateway(tab).val

\* All the rows of the order-list files (lines 65, 290, 461)
ConcatOrders(order_files) ==
    IF Len(order_files) = 1 THEN order_files[1] ELSE order_files[1] \o order_files[2]

\* drop_duplicates(subset=[id], keep="first")
DropDuplicates(df) ==
    SelectSeq([k \in DOMAIN df |-> [row |-> df[k],
                                    dup |-> \E j \in 1..(k - 1) : df[j].id = df[k].id]],
              LAMBDA x : ~x.dup)

\* The rows of df with t0 <= ts <= t1
Between(df, t0, t1) == SelectSeq(df, LAMBDA row : t0 <= row.ts /\ row.ts <= t1)

\* sort_values on the timestamp: the rows in ascending order of ts, rows of
\* equal ts in the order they had
RECURSIVE SortValues(_)
SortValues(df) ==
    IF df = <<>> THEN <<>>
    ELSE LET last == df[Len(df)]
             s    == SortValues(SubSeq(df, 1, Len(df) - 1))
         IN  SelectSeq(s, LAMBDA r : r.ts <= last.ts) \o <<last>>
                 \o SelectSeq(s, LAMBDA r : r.ts > last.ts)

\* The windows with the order list kept to the PSP window
Windows_NoShift(tab, start_date, end_date) ==
    LET psp == IF tab = "ZEN"
                 THEN <<Combine(start_date, 18, 0, 0), Combine(end_date, 17, 59, 59)>>
                 ELSE <<Combine(start_date, 0, 0, 0), Combine(end_date, 23, 59, 59)>>
    IN  [psp |-> psp, ord |-> psp]

\* Lines 94-97, 264-270, 435-441: the PSP window and the order-list window
Windows(tab, start_date, end_date) ==
    IF tab = "ZEN"
      THEN [psp |-> <<Combine(start_date, 18, 0, 0), Combine(end_date, 17, 59, 59)>>,
            ord |-> <<Combine(start_date, 20, 0, 0), Combine(end_date, 19, 59, 59)>>]
      ELSE [psp |-> <<Combine(start_date, 0, 0, 0), Combine(end_date, 23, 59, 59)>>,
            ord |-> <<Combine(start_date, 2, 0, 0), Combine(end_date + 1, 1, 59, 59)>>]

\* A blank Tracking ID of the PSP file (line 496) and of the order list
\* (line 476), where 'None' and 'none' are blank as well
StrNone == <<"N", "o", "n", "e">>
BlankPspId(id) == id = None \/ Strip(id) = <<>>
BlankOrderId(id) == id = None \/ Strip(id) \in {<<>>, StrNone, Lower(StrNone)}

\* The PSP rows with the amount column the tab sums: calculated_amount for
\* Coins Buy (line 408), the amount of the file otherwise
WithAmount(tab, df) ==
    [k \in DOMAIN df |->
        [id |-> df[k].id, ts |-> df[k].ts, eligible |-> df[k].eligible,
         amount |-> IF tab = "Coins Buy" THEN FMulInt(df[k].Amount, df[k].Rate)
                    ELSE df[k].Amount]]

Limit2500 == DecToFloat(2500, 0)

\* The cleaning with the duplicates of Coins Buy removed as well
CleanPsp_Deduplicated(tab, df, window) ==
    LET rows == WithAmount(tab, df)
        kept == DropDuplicates(SelectSeq(rows, LAMBDA r :
                    IF tab = "Coins Buy" THEN FLE(r.amount, Limit2500) ELSE r.eligible))
    IN  SortValues(Between([k \in DOMAIN kept |-> kept[k].row], window[1], window[2]))

\* Lines 99-118 (ZEN), 241-273 (BridgerPay), 408-444 (Coins Buy): the
\* cleaned PSP rows of the window
CleanPsp(tab, df, window) ==
    LET rows == WithAmount(tab, df)
        unwrap(d) == [k \in DOMAIN d |-> d[k].row]
    IN  CASE tab = "ZEN" ->
               unwrap(DropDuplicates(
                   SelectSeq(Between(rows, window[1], window[2]), LAMBDA r : r.eligible)))
          [] tab = "BridgerPay" ->
               SortValues(Between(
                   unwrap(DropDuplicates(SelectSeq(rows, LAMBDA r : r.eligible))),
                   window[1], window[2]))
          [] OTHER ->
               SortValues(Between(
                   SelectSeq(rows, LAMBDA r : FLE(r.amount, Limit2500)),
                   window[1], window[2]))

\* Lines 65-82 and 121-132 (ZEN), 290-313 (BridgerPay), 461-493 and 506
\* (Coins Buy): the cleaned order rows of the window
CleanOrders(tab, order_files, window) ==
    LET concat == ConcatOrders(order_files)
        named  == IF tab = "Coins Buy"
                    THEN SelectSeq(concat, LAMBDA r : ~BlankOrderId(r.id))
                    ELSE concat
        dedup  == DropDuplicates(named)
    IN  Between(SortValues([k \in DOMAIN dedup |-> dedup[k].row]), window[1], window[2])

\* A row of the final set
FinalRow(row, plan_type, grand_total) ==
    [id |-> row.id, ts |-> row.ts, amount |-> row.amount,
     PlanType |-> plan_type, GrandTotal |-> grand_total]

\* merge(how="inner") on the id: for each PSP row, in order, one row for
\* each order row of the same id
RECURSIVE Merge(_, _)
Merge(psp, ord) ==
    IF psp = <<>> THEN <<>>
    ELSE LET hits == SelectSeq(ord, LAMBDA o : o.id = psp[1].id)
         IN  [k \in DOMAIN hits |-> FinalRow(psp[1], hits[k].PlanType, hits[k].GrandTotal)]
                 \o Merge(Tail(psp), ord)

PlanUnmatched ==
    <<"C", "F", "D", " ", "(", "U", "n", "m", "a", "t", "c", "h", "e", "d", " ",
      "P", "S", "P", ")">>
PlanBlank ==
    <<"C", "F", "D", " ", "(", "B", "l", "a", "n", "k", " ", "T", "r", "a", "c", "k",
      "i", "n", "g", " ", "I", "D", ")">>

\* The rows with the catch-all Plan Type, the Grand Total being the amount
Reclassified(df, plan_type) ==
    [k \in DOMAIN df |-> FinalRow(df[k], plan_type, df[k].amount)]

\* The join alone: the rows it leaves out are dropped
FinalSet_InnerOnly(tab, psp, ord) == Merge(psp, ord)

\* Lines 134-161 (ZEN), 312-338 (BridgerPay), 495-529 (Coins Buy): the join
\* and the rows it leaves out
FinalSet(tab, psp, ord) ==
    IF tab = "Coins Buy"
      THEN LET blank  == SelectSeq(psp, LAMBDA r : BlankPspId(r.id))
               named  == SelectSeq(psp, LAMBDA r : ~BlankPspId(r.id))
               rest   == SelectSeq(named, LAMBDA r : \A k \in DOMAIN ord : ord[k].id # r.id)
           IN  SortValues(Merge(named, ord) \o Reclassified(blank, PlanBlank)
                              \o Reclassified(rest, PlanUnmatched))
      ELSE LET merged == Merge(psp, ord)
               rest   == SelectSeq(psp, LAMBDA r :
                             \A k \in DOMAIN merged : merged[k].id # r.id)
           IN  merged \o Reclassified(rest, PlanUnmatched)

\* The test without .lower()
is_futures_plan_CaseSensitive(plan_type) ==
    IF plan_type = None THEN FALSE ELSE Contains(plan_type, StrFutures)

\* Lines 24-28
is_futures_plan(plan_type) ==
    IF plan_type = None THEN FALSE ELSE Contains(Lower(plan_type), StrFutures)

\* Lines 165-182, 342-359, 533-546: the rows of the two categories, CFD
\* first, each with its Date (the timestamp shifted by six hours) and its
\* Category, and the Revenue of every (Date, Category)
Categorised(df) ==
    LET tagged(rows, category) ==
            [k \in DOMAIN rows |->
                [key |-> <<(rows[k].ts + 6 * 3600) \div 86400, category>>,
                 amount |-> rows[k].amount]]
    IN  tagged(SortValues(SelectSeq(df, LAMBDA r : ~is_futures_plan(r.PlanType))), "CFD")
            \o tagged(SortValues(SelectSeq(df, LAMBDA r : is_futures_plan(r.PlanType))),
                      "Futures")

RevenueSummary(df) ==
    LET rows == Categorised(df)
        keys == [k \in DOMAIN rows |-> rows[k].key]
    IN  {[Date |-> key[1], Category |-> key[2],
          Revenue |-> SumWhere(keys, [k \in DOMAIN rows |-> rows[k].amount], key)] :
            key \in {keys[k] : k \in DOMAIN keys}}

\* Lines 208-209, 385-386, 572-573
SummaryKey(tab) ==
    CASE tab = "ZEN" -> "zen_summary"
      [] tab = "BridgerPay" -> "bp_summary"
      [] OTHER -> "coins_summary"

StoreSummary(ss, tab, summary) ==
    [k \in DOMAIN ss \cup {SummaryKey(tab)} |->
        IF k = SummaryKey(tab)
          THEN {[Date |-> s.Date, Category |-> s.Category, Revenue |-> s.Revenue,
                 Gateway |-> tab] : s \in summary}
          ELSE ss[k]]

\* The Gateway value of the rows of a tab's own files
ExpectedGateway(tab) ==
    CASE tab = "ZEN" -> "Zen Pay"
      [] tab = "BridgerPay" -> "Bridger Pay"
      [] OTHER -> "Coins Buy"

MaxPspRows == 2
MaxOrderRows == 2

IdT1 == <<"T", "1">>
IdT2 == <<"T", "2">>
IdT3 == <<"T", "3">>

PspRow(id, ts, cents, rate, gateway, eligible) ==
    [id |-> id, ts |-> ts, Amount |-> DecToFloat(cents, 2), Rate |-> rate,
     Gateway |-> gateway, eligible |-> eligible]

\* The rows a PSP file is made of, in file order: timestamps on and next to
\* the ends of the windows, an id twice, a blank id, an amount that Coins
\* Buy multiplies beyond 2500, another gateway's row
PspRows(tab) ==
    << PspRow(IdT1, Combine(0, 18, 0, 0),    5000,   1, ExpectedGateway(tab), TRUE),
       PspRow(IdT1, Combine(0, 23, 59, 59),  3010,   2, ExpectedGateway(tab), TRUE),
       PspRow(IdT2, Combine(1, 17, 59, 59),  2000,   1, ExpectedGateway(tab), TRUE),
       PspRow(IdT3, Combine(1, 18, 0, 0),    130000, 2, ExpectedGateway(tab), TRUE),
       PspRow(None, Combine(0, 17, 59, 59),  1000,   1, ExpectedGateway(tab), FALSE),
       PspRow(IdT2, Combine(0, 19, 0, 0),    2000,   1, "Other Pay", TRUE) >>

OrderRow(id, ts, plan_type, cents, gateway) ==
    [id |-> id, ts |-> ts, PlanType |-> plan_type, GrandTotal |-> DecToFloat(cents, 2),
     Gateway |-> gateway]

PlanFutures50K == <<"F", "u", "t", "u", "r", "e", "s", " ", "5", "0", "K">>
PlanCfd == <<"C", "F", "D">>

\* The rows an order-list file is made of, in file order
OrderRows(tab) ==
    << OrderRow(IdT1, Combine(0, 1, 59, 58),  PlanCfd,        5000, ExpectedGateway(tab)),
       OrderRow(IdT1, Combine(0, 20, 0, 0),   PlanFutures50K, 5000, ExpectedGateway(tab)),
       OrderRow(IdT1, Combine(1, 1, 59, 59),  PlanCfd,        3010, ExpectedGateway(tab)),
       OrderRow(IdT2, Combine(1, 19, 59, 59), None,           2000, ExpectedGateway(tab)),
       OrderRow(IdT3, Combine(1, 20, 0, 0),   PlanFutures,    2600, ExpectedGateway(tab)),
       OrderRow(StrNone, Combine(0, 1, 59, 59), PlanCfd,      1000, ExpectedGateway(tab)),
       OrderRow(IdT2, Combine(0, 20, 0, 0),   PlanCfd,        2000, "Other Pay") >>

\* The files: at most n of the rows, kept in file order
FilesOf(rows, n) ==
    LET picks == {S \in SUBSET DOMAIN rows : Cardinality(S) <= n}
        Pick(S) == SelectSeq([k \in DOMAIN rows |-> IF k \in S THEN <<rows[k]>> ELSE <<>>],
                             LAMBDA x : x # <<>>)
    IN  {[k \in DOMAIN Pick(S) |-> Pick(S)[k][1]] : S \in picks}

\* The order-list uploads: one file, or its rows in two files
OrderUploads(rows, n) ==
    {<<f>> : f \in FilesOf(rows, n)}
        \cup {<<SubSeq(f, 1, 1), SubSeq(f, 2, Len(f))>> : f \in {g \in FilesOf(rows, n) : Len(g) = 2}}

Tabs == {"ZEN", "BridgerPay", "Coins Buy"}
Dates == 0..1

\* The uploads of one tab are there and its dates are chosen
GatewayInit ==
    /\ pc = "loaded"
    /\ pasted_text = <<>>
    /\ line_no = 1
    /\ email_no = 1
    /\ riseworks_data = <<>>
    /\ crypto_data = <<>>
    /\ final_data = <<>>
    /\ pasted_df = <<>>
    /\ uploaded_df = <<>>
    /\ section_type = None
    /\ filtered_df = <<>>
    /\ results = NoResults
    /\ session_state = InitSessionState(<<>>)
    /\ uploaded_file = SNone
    /\ last_run = NoRun
    /\ \E tab \in Tabs, start_date \in Dates, end_date \in Dates :
          \E psp_file \in FilesOf(PspRows(tab), MaxPspRows),
             order_files \in OrderUploads(OrderRows(tab), MaxOrderRows) :
              gw_input = [tab |-> tab, psp_file |-> psp_file, order_files |-> order_files,
                          start_date |-> start_date, end_date |-> end_date]
    /\ df_psp = <<>>
    /\ df_ord = <<>>
    /\ df_merged = <<>>
    /\ gw_session = <<>>

\* Lines 46-48 and 68-70, 237-239 and 293-295: st.stop() on another Gateway
GatewayValidate ==
    /\ pc = "loaded"
    /\ pc' = IF /\ GatewayValid(gw_input.tab, gw_input.psp_file)
                /\ GatewayValid(gw_input.tab, ConcatOrders(gw_input.order_files))
               THEN "valid" ELSE "stopped"
    /\ UNCHANGED <<parserVars, pageVars, gatewayVars>>

\* The cleaning of both sources and their windows
GatewayClean ==
    /\ pc = "valid"
    /\ LET w == Windows(gw_input.tab, gw_input.start_date, gw_input.end_date)
       IN  /\ df_psp' = CleanPsp(gw_input.tab, gw_input.psp_file, w.psp)
           /\ df_ord' = CleanOrders(gw_input.tab, gw_input.order_files, w.ord)
    /\ pc' = "cleaned"
    /\ UNCHANGED <<parserVars, pageVars, gw_input, df_merged, gw_session>>

\* The join and the reclassification of the rows it leaves out
GatewayJoin ==
    /\ pc = "cleaned"
    /\ df_merged' = FinalSet(gw_input.tab, df_psp, df_ord)
    /\ pc' = "joined"
    /\ UNCHANGED <<parserVars, pageVars, gw_input, df_psp, df_ord, gw_session>>

\* The revenue summary, stored for the Summary tab
GatewayStore ==
    /\ pc = "joined"
    /\ gw_session' = StoreSummary(gw_session, gw_input.tab, RevenueSummary(df_merged))
    /\ pc' = "stored"
    /\ UNCHANGED <<parserVars, pageVars, gw_input, df_psp, df_ord, df_merged>>

GatewayNext == GatewayValidate \/ GatewayClean \/ GatewayJoin \/ GatewayStore

GatewaySpec == GatewayInit /\ [][GatewayNext]_vars

\* Some row of the PSP file or of the combined order list has a Gateway
\* value other than the tab's own
WrongGateway ==
    \/ \E k \in DOMAIN gw_input.psp_file :
          gw_input.psp_file[k].Gateway # ExpectedGateway(gw_input.tab)
    \/ \E k \in DOMAIN ConcatOrders(gw_input.order_files) :
          ConcatOrders(gw_input.order_files)[k].Gateway # ExpectedGateway(gw_input.tab)

\* C15: in every tab (ZEN, BridgerPay, Coins Buy) a file with a row of
\* another Gateway value halts the pipeline: nothing is joined and no revenue
\* summary is stored for the tab
C15_WrongGatewayHalts ==
    (gw_input.tab \in Tabs /\ WrongGateway) =>
        /\ pc \in {"loaded", "stopped"}
        /\ df_merged = <<>>
        /\ gw_session = <<>>

\* The pipeline has cleaned its sources
Cleaned == gw_input.tab \in Tabs /\ pc \in {"cleaned", "joined", "stored"}

\* The id occurs on more than one row of df
DuplicatedIn(df, id) == Cardinality({k \in DOMAIN df : df[k].id = id}) > 1

\* The PSP rows the tab deduplicates: the eligible rows, for ZEN those of
\* the window
DeduplicatedPspRows ==
    LET eligible == SelectSeq(gw_input.psp_file, LAMBDA r : r.eligible)
        w == Windows(gw_input.tab, gw_input.start_date, gw_input.end_date).psp
    IN  IF gw_input.tab = "ZEN" THEN Between(eligible, w[1], w[2]) ELSE eligible

\* C16: deduplication on the id column drops all the copies of an id that
\* occurs more than once: no row with a duplicated id remains in the
\* deduplicated order list, nor in the deduplicated ZEN or BridgerPay rows
C16_DedupDropsAllCopies ==
    Cleaned =>
        /\ \A k \in DOMAIN df_ord :
              ~DuplicatedIn(ConcatOrders(gw_input.order_files), df_ord[k].id)
        /\ gw_input.tab \in {"ZEN", "BridgerPay"} =>
              \A k \in DOMAIN df_psp : ~DuplicatedIn(DeduplicatedPspRows, df_psp[k].id)

\* The pipeline has built its final set
Joined == gw_input.tab \in Tabs /\ pc \in {"joined", "stored"}

\* The final row is the PSP row with this Plan Type and Grand Total
IsFinalOf(final, row, plan_type, grand_total) ==
    /\ final.id = row.id
    /\ final.ts = row.ts
    /\ final.amount = row.amount
    /\ final.PlanType = plan_type
    /\ final.GrandTotal = grand_total

\* The final rows the PSP row may have: those of the order rows of its id,
\* the catch-all row if there is none
ExpectedFinal(final, row) ==
    IF gw_input.tab = "Coins Buy" /\ BlankPspId(row.id)
      THEN IsFinalOf(final, row, PlanBlank, row.amount)
      ELSE IF \E o \in DOMAIN df_ord : df_ord[o].id = row.id
             THEN \E o \in DOMAIN df_ord :
                      /\ df_ord[o].id = row.id
                      /\ IsFinalOf(final, row, df_ord[o].PlanType, df_ord[o].GrandTotal)
             ELSE IsFinalOf(final, row, PlanUnmatched, row.amount)

\* C17: every cleaned PSP row of the window is exactly once in the final
\* set, with the Plan Type and Grand Total of the order list if its id was
\* joined and else with the catch-all Plan Type and its own amount as Grand
\* Total; the final set has as many rows as there are cleaned PSP rows
C17_EveryPspRowOnce ==
    Joined =>
        /\ Len(df_merged) = Len(df_psp)
        /\ \A k \in DOMAIN df_psp :
              /\ Cardinality({j \in DOMAIN df_merged :
                                 /\ df_merged[j].id = df_psp[k].id
                                 /\ df_merged[j].ts = df_psp[k].ts}) = 1
              /\ \E j \in DOMAIN df_merged : ExpectedFinal(df_merged[j], df_psp[k])

C17_Witness ==
    /\ Joined
    /\ \E i, j \in DOMAIN df_merged :
          /\ df_merged[i].PlanType = PlanUnmatched
          /\ df_merged[i].GrandTotal = df_merged[i].amount
          /\ df_merged[j].PlanType = PlanFutures50K

\* Of two Coins Buy rows, one without Tracking ID, one with an id that no
\* order row has, both are in the final set
C17_WitnessBlank ==
    /\ Joined
    /\ \E i, j \in DOMAIN df_merged :
          /\ df_merged[i].PlanType = PlanBlank
          /\ df_merged[j].PlanType = PlanUnmatched

\* The pipeline has stored its revenue summary
Stored == gw_input.tab \in Tabs /\ pc = "stored"

StoredSummary == gw_session[SummaryKey(gw_input.tab)]

\* The Date and the Category the claims give a final row
DateOf(ts) == (ts + 6 * 3600) \div 86400

CategoryOf(plan_type) ==
    IF plan_type # None /\ Contains(Lower(plan_type), StrFutures) THEN "Futures" ELSE "CFD"

\* The amounts of the final rows of a Date and Category
GroupAmounts(date, category) ==
    LET rows == SelectSeq(df_merged, LAMBDA r :
                    DateOf(r.ts) = date /\ CategoryOf(r.PlanType) = category)
    IN  [k \in DOMAIN rows |-> rows[k].amount]

\* The summary has the final row's group, its Revenue being the sum of the
\* amounts of the final rows of the group
InRevenue(final) ==
    \E s \in StoredSummary :
        /\ s.Date = DateOf(final.ts)
        /\ s.Category = CategoryOf(final.PlanType)
        /\ Within1e9(s.Revenue, SumAmounts(GroupAmounts(s.Date, s.Category)))

\* C18: in Coins Buy every PSP row of the window whose Tracking ID is on
\* more than one row of the file, and whose calculated amount is not above
\* 2500, is in the final set, and its calculated amount is in the revenue
\* summary, whether or not the order list has the id
C18_CoinsDuplicatesKept ==
    (Stored /\ gw_input.tab = "Coins Buy") =>
        \A k \in DOMAIN gw_input.psp_file :
            LET row == gw_input.psp_file[k]
                calculated_amount == FMulInt(row.Amount, row.Rate)
            IN  ( /\ DuplicatedIn(gw_input.psp_file, row.id)
                  /\ Combine(gw_input.start_date, 0, 0, 0) <= row.ts
                  /\ row.ts <= Combine(gw_input.end_date, 23, 59, 59)
                  /\ FLE(calculated_amount, DecToFloat(2500, 0)) )
                => \E j \in DOMAIN df_merged :
                      /\ df_merged[j].id = row.id
                      /\ df_merged[j].ts = row.ts
                      /\ df_merged[j].amount = calculated_amount
                      /\ InRevenue(df_merged[j])

\* Two rows of one Tracking ID are in the final set, the order list having
\* the id
C18_Witness ==
    /\ Stored
    /\ gw_input.tab = "Coins Buy"
    /\ \E i, j \in DOMAIN df_merged :
          /\ i # j
          /\ df_merged[i].id = df_merged[j].id
          /\ df_merged[i].PlanType = PlanFutures50K

\* The first and the last second of the PSP window the claim gives the tab
\* for the chosen dates, in seconds since day 0 00:00:00
PspWindowStart ==
    IF gw_input.tab = "ZEN" THEN gw_input.start_date * 86400 + 18 * 3600
    ELSE gw_input.start_date * 86400

PspWindowEnd ==
    IF gw_input.tab = "ZEN" THEN gw_input.end_date * 86400 + 17 * 3600 + 59 * 60 + 59
    ELSE gw_input.end_date * 86400 + 23 * 3600 + 59 * 60 + 59

\* The PSP rows that the filters other than the window let pass
PspCandidates ==
    SelectSeq(gw_input.psp_file, LAMBDA r :
        IF gw_input.tab = "Coins Buy"
          THEN FLE(FMulInt(r.Amount, r.Rate), DecToFloat(2500, 0))
          ELSE r.eligible)

\* The order rows that the filters other than the window let pass
OrderCandidates ==
    SelectSeq(ConcatOrders(gw_input.order_files), LAMBDA r :
        ~(gw_input.tab = "Coins Buy" /\ BlankOrderId(r.id)))

\* Of the candidates, a row is kept iff its timestamp is in [t0, t1]: every
\* kept row is, and a candidate that is in the window is kept unless an
\* earlier candidate has its id
KeptAreThoseIn(kept, candidates, t0, t1, deduplicated) ==
    /\ \A k \in DOMAIN kept : t0 <= kept[k].ts /\ kept[k].ts <= t1
    /\ \A k \in DOMAIN candidates :
          (t0 <= candidates[k].ts /\ candidates[k].ts <= t1) =>
              \/ \E j \in DOMAIN kept :
                    kept[j].id = candidates[k].id /\ kept[j].ts = candidates[k].ts
              \/ /\ deduplicated
                 /\ \E i \in 1..(k - 1) : candidates[i].id = candidates[k].id

\* C19: both windows include both their ends, and the order-list window is
\* the PSP window two hours later: ZEN keeps the PSP rows of
\* [start_date 18:00:00, end_date 17:59:59] and the order rows of
\* [start_date 20:00:00, end_date 19:59:59], BridgerPay and Coins Buy the
\* PSP rows of [start_date 00:00:00, end_date 23:59:59] and the order rows of
\* [start_date 02:00:00, end_date + 1 day 01:59:59]
C19_WindowsInclusiveShifted ==
    Cleaned =>
        /\ KeptAreThoseIn(df_psp, PspCandidates, PspWindowStart, PspWindowEnd,
                          gw_input.tab # "Coins Buy")
        /\ KeptAreThoseIn(df_ord, OrderCandidates, PspWindowStart + 2 * 3600,
                          PspWindowEnd + 2 * 3600, TRUE)

\* ZEN rows on the first and on the last second of both windows are kept
C19_Witness ==
    /\ Cleaned
    /\ gw_input.tab = "ZEN"
    /\ gw_input.start_date = 0
    /\ gw_input.end_date = 1
    /\ \E i, j \in DOMAIN df_psp :
          /\ df_psp[i].ts = Combine(0, 18, 0, 0)
          /\ df_psp[j].ts = Combine(1, 17, 59, 59)
    /\ \E i, j \in DOMAIN df_ord :
          /\ df_ord[i].ts = Combine(0, 20, 0, 0)
          /\ df_ord[j].ts = Combine(1, 19, 59, 59)

\* BridgerPay: the PSP row of 23:59:59 and the order row of 01:59:59 of the
\* next day are kept
C19_WitnessNextDay ==
    /\ Cleaned
    /\ gw_input.tab = "BridgerPay"
    /\ gw_input.end_date = 0
    /\ \E i \in DOMAIN df_psp : df_psp[i].ts = Combine(0, 23, 59, 59)
    /\ \E i \in DOMAIN df_ord : df_ord[i].ts = Combine(1, 1, 59, 59)

RECURSIVE SumRevenue(_)
SumRevenue(summary) ==
    IF summary = {} THEN FZero
    ELSE LET s == CHOOSE x \in summary : TRUE
         IN  FAdd(SumRevenue(summary \ {s}), s.Revenue)

\* C20: every row of the final set is in exactly one of the categories
\* Futures (its Plan Type contains 'futures', in any case) and CFD (all the
\* others, catch-all and missing Plan Type included), under the Date of its
\* PSP timestamp six hours later; the Revenue of a (Date, Category) group is
\* the sum of the PSP amounts of its rows, and the Revenue of all groups
\* together is the sum of the PSP amounts of all the rows of the final set
C20_RevenuePartition ==
    Stored =>
        /\ \A j \in DOMAIN df_merged :
              Cardinality({s \in StoredSummary :
                              /\ s.Date = DateOf(df_merged[j].ts)
                              /\ s.Category = CategoryOf(df_merged[j].PlanType)}) = 1
        /\ \A s \in StoredSummary :
              /\ s.Category \in {"Futures", "CFD"}
              /\ GroupAmounts(s.Date, s.Category) # <<>>
              /\ Within1e9(s.Revenue, SumAmounts(GroupAmounts(s.Date, s.Category)))
        /\ Within1e9(SumRevenue(StoredSummary),
                     SumAmounts([j \in DOMAIN df_merged |-> df_merged[j].amount]))

\* A row of Plan Type 'FUTURES x' and a row without Plan Type are in the
\* final set, and the summary has a group of either category
C20_Witness ==
    /\ Stored
    /\ \E i, j \in DOMAIN df_merged :
          /\ df_merged[i].PlanType = PlanFutures
          /\ df_merged[j].PlanType = None
    /\ \E s, t \in StoredSummary : s.Category = "Futures" /\ t.Category = "CFD"

\* The index of the first token of the line that is an amount token; 0 when
\* there is none
FirstAmountIdx(parts) ==
    IF \E i \in DOMAIN parts : IsAmountToken(parts[i])
      THEN CHOOSE i \in DOMAIN parts :
               /\ IsAmountToken(parts[i])
               /\ \A j \in 1..(i - 1) : ~IsAmountToken(parts[j])
      ELSE 0

\* The index of the first token of the line with an '@'; 0 when there is none
FirstEmailIdx(parts) ==
    IF \E i \in DOMAIN parts : HasChar(parts[i], "@")
      THEN CHOOSE i \in DOMAIN parts :
               /\ HasChar(parts[i], "@")
               /\ \A j \in 1..(i - 1) : ~HasChar(parts[j], "@")
      ELSE 0

\* The block is one Riseworks line whose first amount token is a number and
\* comes before the email, and the line has been read
OneRiseworksLineRead ==
    /\ pc = "parse"
    /\ Len(pasted_text) = 1
    /\ line_no = 2
    /\ Len(PartsOf(pasted_text[1])) >= 3
    /\ FirstAmountIdx(PartsOf(pasted_text[1])) > 0
    /\ FirstAmountIdx(PartsOf(pasted_text[1])) < FirstEmailIdx(PartsOf(pasted_text[1]))
    /\ ParseAmount(PartsOf(pasted_text[1])[FirstAmountIdx(PartsOf(pasted_text[1]))]).ok

\* C22: on a Riseworks line the amount token is the first token with a
\* currency symbol or of the decimal-number pattern: the identity field is
\* the tokens before that token, and the amount is that token's value
C22_FirstAmountToken ==
    OneRiseworksLineRead =>
        LET parts == PartsOf(pasted_text[1])
            first == FirstAmountIdx(parts)
        IN  riseworks_data =
                << [email |-> parts[FirstEmailIdx(parts)],
                    total_amount |-> FAdd(FZero, ParseAmount(parts[first]).val),
                    logins |-> LoginIds(JoinSp(SubSeq(parts, 1, first - 1)))] >>

\* A login as a case-insensitive, trimmed string
NormLogin(login) == Strip(Lower(login))

\* C23: in the login join and in upload_only and paste_only, logins are
\* compared as case-insensitive, trimmed strings: a filtered ledger row and
\* an ALT pasted row whose logins differ in case or surrounding whitespace
\* only are matched with each other, and neither is reported as unmatched
C23_LoginsNormalised ==
    pc = "done" =>
        \A u \in DOMAIN filtered_df, p \in DOMAIN AltPasted :
            NormLogin(filtered_df[u].Login) = NormLogin(AltPasted[p].Login) =>
                /\ \E r \in AltRecords :
                      NormLogin(r.Login) = NormLogin(AltPasted[p].Login)
                /\ \A k \in DOMAIN results.paste_only :
                      ~( /\ results.paste_only[k].Payment_Method = "ALT"
                         /\ results.paste_only[k].Login = AltPasted[p].Login )

\* Both reconciliation summaries are shown: a ledger and both results are
\* stored
BothSummariesShown ==
    /\ ~session_state["uploaded_data"].is_none
    /\ ~session_state["forex_results"].is_none
    /\ ~session_state["futures_results"].is_none

\* C24: Forex and Futures are mutually exclusive and exhaustive: every
\* place that splits the ledger by Plan puts each row, also one without Plan
\* and one whose Plan holds both 'forex' and 'futures', in exactly one of the
\* two sections, and all places in the same one
C24_SectionsPartition ==
    BothSummariesShown =>
        \A k \in DOMAIN session_state["uploaded_data"].val.rows :
            LET plan == session_state["uploaded_data"].val.rows[k].Plan
            IN  \A site \in SplitSites :
                    /\ Cardinality(SectionsAt(site, plan)) = 1
                    /\ SectionsAt(site, plan) = SectionsAt("reconcile", plan)

\* What a section adds to a total of the master summary according to the
\* claim: the count of its stored summary, 0 when no result is stored
CountOf(section, field) ==
    IF session_state[ResultsKey(section)].is_none THEN 0
    ELSE session_state[ResultsKey(section)].val.summary[field]

\* The breakdown lists the section as the claim says
ListedAsClaimed(section, row) ==
    IF session_state[ResultsKey(section)].is_none
      THEN /\ row.Status = "Not Processed"
           /\ row.Matched = 0 /\ row.UploadOnly = 0
           /\ row.PasteOnly = 0 /\ row.AmountDifferences = 0
      ELSE /\ row.Status = "Completed"
           /\ row.Matched = CountOf(section, "matched")
           /\ row.UploadOnly = CountOf(section, "upload_only")
           /\ row.PasteOnly = CountOf(section, "paste_only")
           /\ row.AmountDifferences = CountOf(section, "amount_differences")

\* C21: the four totals of the master summary are the sums of the counts of
\* the stored Forex and Futures summaries, a section without stored result
\* adding 0 and being listed as 'Not Processed', a section with a stored
\* result being listed as 'Completed' with its own counts
C21_MasterSummaryAdds ==
    last_run.action = "master_summary" =>
        /\ \A field \in {"matched", "upload_only", "paste_only", "amount_differences"} :
              last_run.shown.totals[field] = CountOf("forex", field) + CountOf("futures", field)
        /\ ListedAsClaimed("forex", last_run.shown.breakdown.forex)
        /\ ListedAsClaimed("futures", last_run.shown.breakdown.futures)

\* The master summary of two stored results with a matched record each
C21_Witness ==
    /\ last_run.action = "master_summary"
    /\ CountOf("forex", "matched") >= 1
    /\ CountOf("futures", "matched") >= 1
    /\ last_run.shown.totals.matched = CountOf("forex", "matched") + CountOf("futures", "matched")

\* The master summary of a Forex result alone: Futures is 'Not Processed'
C21_WitnessOneSection ==
    /\ last_run.action = "master_summary"
    /\ session_state["futures_results"].is_none
    /\ last_run.shown.breakdown.futures.Status = "Not Processed"
    /\ last_run.shown.breakdown.forex.Status = "Completed"

\* C25: in every state of the payout session the processed flag of a
\* section is true iff the section has a stored result
C25_ProcessedIffResult ==
    pc = "page" =>
        /\ session_state["forex_processed"] <=> ~session_state["forex_results"].is_none
        /\ session_state["futures_processed"] <=> ~session_state["futures_results"].is_none

\* A Forex result is stored and Futures has none, a Proceed Futures having
\* been run before
C25_Witness ==
    /\ last_run = [action |-> "proceed_forex", outcome |-> "stored"]
    /\ session_state["forex_processed"]
    /\ ~session_state["futures_processed"]
    /\ session_state["futures_results"].is_none
    /\ "futures_riseworks_data" \in DOMAIN session_state

\* C26: a stored result was computed from the ledger that is stored: when
\* an upload stores another ledger, no result of the earlier ledger stays
\* stored
C26_ResultsOfStoredLedger ==
    [][( /\ last_run'.action = "upload"
         /\ ~session_state'["uploaded_data"].is_none
         /\ session_state'["uploaded_data"] # session_state["uploaded_data"] )
       => /\ session_state'["forex_results"].is_none
          /\ session_state'["futures_results"].is_none]_vars

\* C29: with a stored result, each export button that is shown produces its
\* report through ReconciliationProcessor without raising, the session state
\* staying as it is
C29_ExportCompletes ==
    last_run.action \in {"export_forex", "export_futures", "export_combined"} =>
        last_run.outcome = "exported"

\* C27: the two joins are independent: a ledger row selected for its
\* 'riseworks' label alone is in no record of the login join with an ALT
\* pasted row, and a row selected for its USDC/USDT label alone is in no
\* record of the email join with a Riseworks pasted row
C27_JoinsIndependent ==
    pc = "done" =>
        /\ \A r \in AltRecords : \A u \in DOMAIN filtered_df :
              filtered_df[u].Login = r.Login => IsAltLabel(filtered_df[u].PaymentMethod)
        /\ \A r \in RiseworksRecords : \A u \in DOMAIN filtered_df :
              filtered_df[u].CustomerEmail = r.CustomerEmail =>
                  IsRiseworksLabel(filtered_df[u].PaymentMethod)

\* C28: in ZEN and BridgerPay the order of the window and of the
\* deduplication loses no match: a cleaned PSP row of the window whose id is
\* on an order row with 'Updated At' in the order-list window is joined to
\* an order row and is not 'CFD (Unmatched PSP)', also when the order list
\* has another copy of the id outside the window
C28_NoMatchLost ==
    (Joined /\ gw_input.tab \in {"ZEN", "BridgerPay"}) =>
        \A k \in DOMAIN df_psp :
            (\E o \in DOMAIN ConcatOrders(gw_input.order_files) :
                /\ ConcatOrders(gw_input.order_files)[o].id = df_psp[k].id
                /\ PspWindowStart + 2 * 3600 <= ConcatOrders(gw_input.order_files)[o].ts
                /\ ConcatOrders(gw_input.order_files)[o].ts <= PspWindowEnd + 2 * 3600)
            => /\ \E o \in DOMAIN df_ord : df_ord[o].id = df_psp[k].id
               /\ \A j \in DOMAIN df_merged :
                     df_merged[j].id = df_psp[k].id => df_merged[j].PlanType # PlanUnmatched

\* C30: in ZEN, for all dates with start_date <= end_date, start_date =
\* end_date included, the PSP window is not empty: its first second is not
\* later than its last
C30_ZenWindowNotEmpty ==
    (Cleaned /\ gw_input.tab = "ZEN" /\ gw_input.start_date <= gw_input.end_date) =>
        Windows("ZEN", gw_input.start_date, gw_input.end_date).psp[1]
            <= Windows("ZEN", gw_input.start_date, gw_input.end_date).psp[2]

====
